---- MODULE Spec2Model ----
(***************************************************************************)
(* Model of github.com/berkaroad/ioc: the service container of ioc.go      *)
(* (defaultContainer, its binding table, its parent link), the package     *)
(* level convenience functions that work on globalContainer, and the       *)
(* injection of functions and structs.                                     *)
(***************************************************************************)
EXTENDS Integers, Sequences, FiniteSets, TLC

\* ------------------------------------------------------------------ bounds
\* Number of objects the transient factories may allocate in one run.
MaxAlloc == 2
\* Number of bindings, besides the Resolver self-registrations, that the
\* callers put into the containers of one run.
MaxBindings == 2
\* Number of containers that are given a parent in one run.
MaxLinks == 2
\* Number of types the callers map in the containers of the first versions
\* (iocContainer) in one run.
MaxMapped == 3

\* ------------------------------------------------------ values of the model
\* The nil reflect.Type, the nil Resolver and the nil error.
Nil == "nil"
\* A Go value: ref names the object the callers made (n = 0), or the factory
\* whose n-th allocated object it is (n > 0).
Value(ref) == [ref |-> ref, n |-> 0]
\* The nil interface value.
NilValue == Value("nil")
\* The zero reflect.Value (IsValid() == false).
Invalid == Value("invalid")

\* globalContainer and the two containers the callers create with New().
globalContainer == "G"
Containers == {globalContainer, "A", "B"}

\* reflect.Type values: the Resolver interface, an interface service, a
\* *struct service and a plain struct type (no valid service identity).
resolverType == "Resolver"
ServiceTypes == {resolverType, "IX", "*PY"}
AllTypes == ServiceTypes \cup {"SZ"}

\* reflect.Type.Kind(), with Elem().Kind() folded in for pointers.
Kind(t) ==
    CASE t \in {resolverType, "IX", "ReadonlyContainer"} -> "Interface"
      [] t \in {"*PY", "*XImpl", "*S7", "*S8", "*S9", "*SA", "*SB",
                "*defaultContainer", "*iocContainer", "*Client"}
           -> "PointerToStruct"
      [] t \in {"SZ", "reflect.Value"} -> "Struct"
      [] OTHER -> "Func"

\* The instances callers register as singletons: three *XImpl (XImpl
\* implements IX) and a *PY.
Instances == {Value("x1"), Value("x2"), Value("x3"), Value("y1")}
\* The factories callers register as transients: func() IX and func() *PY.
Factories == {Value("fx"), Value("fy")}

\* The values callers pass where an instance or a factory is wanted although
\* they are none: a nil *PY, nil funcs, a func with a parameter, a func with
\* two results, a func that returns a plain struct, and a plain struct.
NilPointers == {Value("nilpy"), Value("nilcl")}
NilFuncs == {Value("nilfx"), Value("nilfy")}
OtherFuncs == {Value("fin"), Value("fout2"), Value("fz")}
StructValue == Value("z1")

\* reflect.Value.IsNil() of a pointer or a func.
IsNil(v) == v \in NilPointers \cup NilFuncs

\* reflect.Value.Type() of an instance, a container or a factory product.
TypeOf(v) ==
    CASE v.ref \in Containers -> "*defaultContainer"
      [] v.ref \in {"x1", "x2", "x3"} -> "*XImpl"
      [] v.ref \in {"y1", "nilpy"} -> "*PY"
      [] v.ref = "nilcl" -> "*Client"
      [] v.ref = "rv" -> "reflect.Value"
      [] v.ref = "fx" -> IF v.n = 0 THEN "func() IX" ELSE "*XImpl"
      [] v.ref = "fy" -> IF v.n = 0 THEN "func() *PY" ELSE "*PY"
      [] v.ref = "nilfx" -> "func() IX"
      [] v.ref = "nilfy" -> "func() *PY"
      [] v.ref = "fin" -> "func(IX) IX"
      [] v.ref = "fout2" -> "func() (IX, error)"
      [] v.ref = "fz" -> "func() SZ"
      [] v.ref \in {"C", "P"} -> "*iocContainer"
      [] v.ref \in {"s7", "s7n", "S7"} -> "*S7"
      [] v.ref \in {"s8", "S8"} -> "*S8"
      [] v.ref \in {"s9", "S9"} -> "*S9"
      [] v.ref \in {"sa", "SA"} -> "*SA"
      [] v.ref \in {"sb", "SB"} -> "*SB"
      [] OTHER -> "SZ"

\* reflect.Type.AssignableTo: identical types, or the type implements the
\* interface.
AssignableTo(from, to) ==
    \/ from = to
    \/ from = "*defaultContainer" /\ to = resolverType
    \/ from = "*XImpl" /\ to = "IX"

\* NumIn(), NumOut() and Out(0) of a factory's type.
NumIn(f) == IF f.ref = "fin" THEN 1 ELSE 0
NumOut(f) == IF f.ref = "fout2" THEN 2 ELSE 1
Out(f) ==
    CASE f.ref \in {"fx", "nilfx", "fin", "fout2"} -> "IX"
      [] f.ref = "fz" -> "SZ"
      [] OTHER -> "*PY"

\* A call of a factory: every factory of the callers returns a pointer to a
\* newly allocated struct; h is the number of objects allocated before.
CallFactory(f, h) == [ref |-> f.ref, n |-> h + 1]

\* ---------------------------------------------------------------- bindings
NoBinding == [ServiceType |-> Nil, CanOverride |-> FALSE,
              Instance |-> Invalid, InstanceFactory |-> Invalid]

serviceBinding(serviceType, canOverride, instance, factory) ==
    [ServiceType |-> serviceType, CanOverride |-> canOverride,
     Instance |-> instance, InstanceFactory |-> factory]

\* reflect.ValueOf: the nil interface gives the zero Value.
ValueOf(v) == IF v = NilValue THEN Invalid ELSE v

EmptyTable == [t \in ServiceTypes |-> NoBinding]

\* sync.Map.Load
Loaded(table, t) == t \in DOMAIN table /\ table[t] # NoBinding

\* addBinding deciding the override by the flag of the incoming binding.
addBindingIncomingFlag(table, binding) ==
    IF binding.ServiceType = Nil
       \/ (Kind(binding.ServiceType) # "Interface"
           /\ Kind(binding.ServiceType) # "PointerToStruct")
       \/ (binding.Instance # Invalid
           /\ ~AssignableTo(TypeOf(binding.Instance), binding.ServiceType))
       \/ (binding.Instance = Invalid /\ binding.InstanceFactory # Invalid
           /\ ~AssignableTo(Out(binding.InstanceFactory), binding.ServiceType))
    THEN [err |-> "refused", table |-> table, actual |-> NoBinding]
    ELSE IF Loaded(table, binding.ServiceType)
    THEN IF binding.CanOverride
         THEN [err |-> Nil,
               table |-> [table EXCEPT ![binding.ServiceType] = binding],
               actual |-> table[binding.ServiceType]]
         ELSE [err |-> Nil, table |-> table,
               actual |-> table[binding.ServiceType]]
    ELSE [err |-> Nil,
          table |-> [table EXCEPT ![binding.ServiceType] = binding],
          actual |-> NoBinding]

\* addBinding that takes any type for a service identity.
addBindingAnyKind(table, binding) ==
    IF binding.ServiceType = Nil
    THEN [err |-> "type of service is null", table |-> table,
          actual |-> NoBinding]
    ELSE IF binding.Instance # Invalid
            /\ ~AssignableTo(TypeOf(binding.Instance), binding.ServiceType)
    THEN [err |-> "instance should implement the service", table |-> table,
          actual |-> NoBinding]
    ELSE IF binding.Instance = Invalid /\ binding.InstanceFactory # Invalid
            /\ (\/ Kind(TypeOf(binding.InstanceFactory)) # "Func"
                \/ NumIn(binding.InstanceFactory) # 0
                \/ NumOut(binding.InstanceFactory) # 1
                \/ ~AssignableTo(Out(binding.InstanceFactory),
                                 binding.ServiceType))
    THEN [err |-> "instanceFactory should return service", table |-> table,
          actual |-> NoBinding]
    ELSE IF Loaded(table, binding.ServiceType)
    THEN [err |-> Nil,
          table |-> IF table[binding.ServiceType].CanOverride
                    THEN [table EXCEPT ![binding.ServiceType] = binding]
                    ELSE table,
          actual |-> table[binding.ServiceType]]
    ELSE [err |-> Nil,
          table |-> [t \in DOMAIN table \cup {binding.ServiceType} |->
                        IF t = binding.ServiceType THEN binding ELSE table[t]],
          actual |-> NoBinding]

\* addBinding that does not compare the instance, or the factory, with the
\* service identity.
addBindingUnchecked(table, binding) ==
    IF binding.ServiceType = Nil
    THEN [err |-> "type of service is null", table |-> table,
          actual |-> NoBinding]
    ELSE IF Kind(binding.ServiceType) # "Interface"
            /\ Kind(binding.ServiceType) # "PointerToStruct"
    THEN [err |-> "should be an interface or *struct", table |-> table,
          actual |-> NoBinding]
    ELSE IF Loaded(table, binding.ServiceType)
    THEN [err |-> Nil,
          table |-> IF table[binding.ServiceType].CanOverride
                    THEN [table EXCEPT ![binding.ServiceType] = binding]
                    ELSE table,
          actual |-> table[binding.ServiceType]]
    ELSE [err |-> Nil,
          table |-> [table EXCEPT ![binding.ServiceType] = binding],
          actual |-> NoBinding]

\* addBinding starting a new table for every binding it stores.
addBindingAlone(table, binding) ==
    IF binding.ServiceType = Nil
    THEN [err |-> "type of service is null", table |-> table,
          actual |-> NoBinding]
    ELSE IF Kind(binding.ServiceType) # "Interface"
            /\ Kind(binding.ServiceType) # "PointerToStruct"
    THEN [err |-> "should be an interface or *struct", table |-> table,
          actual |-> NoBinding]
    ELSE IF binding.Instance # Invalid
            /\ ~AssignableTo(TypeOf(binding.Instance), binding.ServiceType)
    THEN [err |-> "instance should implement the service", table |-> table,
          actual |-> NoBinding]
    ELSE IF binding.Instance = Invalid /\ binding.InstanceFactory # Invalid
            /\ (\/ Kind(TypeOf(binding.InstanceFactory)) # "Func"
                \/ NumIn(binding.InstanceFactory) # 0
                \/ NumOut(binding.InstanceFactory) # 1
                \/ ~AssignableTo(Out(binding.InstanceFactory),
                                 binding.ServiceType))
    THEN [err |-> "instanceFactory should return service", table |-> table,
          actual |-> NoBinding]
    ELSE [err |-> Nil,
          table |-> [EmptyTable EXCEPT ![binding.ServiceType] =
                       IF Loaded(table, binding.ServiceType)
                          /\ ~table[binding.ServiceType].CanOverride
                       THEN table[binding.ServiceType] ELSE binding],
          actual |-> IF Loaded(table, binding.ServiceType)
                     THEN table[binding.ServiceType] ELSE NoBinding]

\* addBinding storing every binding it accepts: the last registration wins.
addBindingLatest(table, binding) ==
    IF binding.ServiceType = Nil
    THEN [err |-> "type of service is null", table |-> table,
          actual |-> NoBinding]
    ELSE IF Kind(binding.ServiceType) # "Interface"
            /\ Kind(binding.ServiceType) # "PointerToStruct"
    THEN [err |-> "should be an interface or *struct", table |-> table,
          actual |-> NoBinding]
    ELSE IF binding.Instance # Invalid
            /\ ~AssignableTo(TypeOf(binding.Instance), binding.ServiceType)
    THEN [err |-> "instance should implement the service", table |-> table,
          actual |-> NoBinding]
    ELSE IF binding.Instance = Invalid /\ binding.InstanceFactory # Invalid
            /\ (\/ Kind(TypeOf(binding.InstanceFactory)) # "Func"
                \/ NumIn(binding.InstanceFactory) # 0
                \/ NumOut(binding.InstanceFactory) # 1
                \/ ~AssignableTo(Out(binding.InstanceFactory),
                                 binding.ServiceType))
    THEN [err |-> "instanceFactory should return service", table |-> table,
          actual |-> NoBinding]
    ELSE [err |-> Nil,
          table |-> [table EXCEPT ![binding.ServiceType] = binding],
          actual |-> IF Loaded(table, binding.ServiceType)
                     THEN table[binding.ServiceType] ELSE NoBinding]

\* addBinding on a binding table. err: the error returned (Nil for none);
\* table: the table afterwards; actual: what LoadOrStore found in the table
\* (NoBinding when it stored the new binding, or when it was not reached).
addBinding(table, binding) ==
    IF binding.ServiceType = Nil
    THEN [err |-> "type of service is null", table |-> table,
          actual |-> NoBinding]
    ELSE IF Kind(binding.ServiceType) # "Interface"
            /\ Kind(binding.ServiceType) # "PointerToStruct"
    THEN [err |-> "should be an interface or *struct", table |-> table,
          actual |-> NoBinding]
    ELSE IF binding.Instance # Invalid
            /\ ~AssignableTo(TypeOf(binding.Instance), binding.ServiceType)
    THEN [err |-> "instance should implement the service", table |-> table,
          actual |-> NoBinding]
    ELSE IF binding.Instance = Invalid /\ binding.InstanceFactory # Invalid
            /\ (\/ Kind(TypeOf(binding.InstanceFactory)) # "Func"
                \/ NumIn(binding.InstanceFactory) # 0
                \/ NumOut(binding.InstanceFactory) # 1
                \/ ~AssignableTo(Out(binding.InstanceFactory),
                                 binding.ServiceType))
    THEN [err |-> "instanceFactory should return service", table |-> table,
          actual |-> NoBinding]
    ELSE IF Loaded(table, binding.ServiceType)
    THEN LET existsBinding == table[binding.ServiceType] IN
         IF existsBinding.CanOverride
         THEN [err |-> Nil,
               table |-> [table EXCEPT ![binding.ServiceType] = binding],
               actual |-> existsBinding]
         ELSE [err |-> Nil, table |-> table, actual |-> existsBinding]
    ELSE [err |-> Nil,
          table |-> [table EXCEPT ![binding.ServiceType] = binding],
          actual |-> NoBinding]

\* Register without the check for two nils.
RegisterNoNilCheck(table, serviceType, canOverride, singletonInstance, factory) ==
    IF singletonInstance # NilValue
    THEN addBinding(table, serviceBinding(serviceType, canOverride,
                                          ValueOf(singletonInstance), Invalid))
    ELSE addBinding(table, serviceBinding(serviceType, canOverride,
                                          Invalid, ValueOf(factory)))

\* defaultContainer.Register on a binding table.
Register(table, serviceType, canOverride, singletonInstance, factory) ==
    IF singletonInstance = NilValue /\ factory = NilValue
    THEN [err |-> "both instance and instanceFactory are null",
          table |-> table, actual |-> NoBinding]
    ELSE IF singletonInstance # NilValue
    THEN addBinding(table, serviceBinding(serviceType, canOverride,
                                          ValueOf(singletonInstance), Invalid))
    ELSE addBinding(table, serviceBinding(serviceType, canOverride,
                                          Invalid, ValueOf(factory)))

\* The conversion of an argument of type TService to any: the nil of a
\* pointer type becomes a nil pointer of that type in a non-nil interface,
\* the nil of an interface type the nil interface.
ToAny(serviceType, v) ==
    IF v = NilValue /\ serviceType = "*PY" THEN Value("nilpy") ELSE v

\* The conversion of an argument of type func() TService to any: a nil func
\* becomes a nil func of that type in a non-nil interface.
FuncToAny(serviceType, f) ==
    IF f = NilValue
    THEN IF serviceType = "*PY" THEN Value("nilfy") ELSE Value("nilfx")
    ELSE f

\* AddSingleton[TService](canOverride, instance) on the table of
\* globalContainer: status "panic" when Register returned an error.
AddSingleton(table, serviceType, canOverride, instance) ==
    LET r == Register(table, serviceType, canOverride,
                      ToAny(serviceType, instance), NilValue) IN
    [status |-> IF r.err # Nil THEN "panic" ELSE "returned",
     err |-> r.err, table |-> r.table, actual |-> r.actual]

\* AddTransient[TService](canOverride, instanceFactory)
AddTransient(table, serviceType, canOverride, instanceFactory) ==
    LET r == Register(table, serviceType, canOverride, NilValue,
                      FuncToAny(serviceType, instanceFactory)) IN
    [status |-> IF r.err # Nil THEN "panic" ELSE "returned",
     err |-> r.err, table |-> r.table, actual |-> r.actual]

\* New() registering the container as a Resolver that may be overridden.
NewOverridable(c) ==
    Register(EmptyTable, resolverType, TRUE, Value(c), NilValue).table

\* New(): an empty container that registered itself as the Resolver.
New(c) == Register(EmptyTable, resolverType, FALSE, Value(c), NilValue).table

\* ------------------------------------------------------------------- state
VARIABLES
    bindings,   \* defaultContainer.bindings of every container
    parent,     \* defaultContainer.parent of every container (Nil: none)
    heap,       \* number of objects the factories have allocated
    last,       \* the last call made on the package and what it returned
    singleton,  \* iocContainer.singleton.valuemapper of every iocContainer
    transient,  \* iocContainer.transient.typemapper of every iocContainer
    iocParent,  \* iocContainer.parent of every iocContainer (Nil: none)
    instFields, \* the field an initializer sets in a registered instance
    inits,      \* InitFunc() calls made for each entry of valuemapper
    stacks,     \* the calls every thread is in, the outermost first
    locker,     \* iocContainer.locker of every iocContainer
    invoked,    \* invoker calls that returned, for each entry of valuemapper
    expected,   \* for each service of each container, the first binding
                \* registered without canOverride, or else the last one
                \* registered, of the Register calls made one after another
    values,     \* iocContainer.i: the values of the inject.Injector
    typemapper, \* iocContainer.typemapper of the container over the injector
    resolved    \* the types that container has resolved as a singleton since
                \* the singleton was registered

vars == <<bindings, parent, heap, last, singleton, transient, iocParent,
          instFields, inits, stacks, locker, invoked, expected, values,
          typemapper, resolved>>
injVars == <<values, typemapper, resolved>>

\* The threads of a program that shares a container, and their calls.
thrVars == <<stacks, locker, invoked>>

\* The state of the containers of the first versions.
iocVars == <<singleton, transient, iocParent, instFields, inits, thrVars>>

\* The record of a call, before any field is filled in.
NoCall == [op |-> "none", c |-> Nil, t |-> Nil, status |-> "returned",
           val |-> Invalid, err |-> Nil, path |-> <<>>, calls |-> <<>>,
           arg |-> Nil, binding |-> NoBinding, actual |-> NoBinding,
           target |-> <<>>,
           args |-> <<>>, called |-> 0, fields |-> <<>>,
           lifecycle |-> Nil, ran |-> <<>>]

\* The containers the callers create with NewContainer(): a child and the
\* container they may set as its parent.
iocContainers == {"C", "P"}

\* The types mapped in them: the container itself as ReadonlyContainer, and
\* the *struct types of the callers.
readonlyContainerType == "ReadonlyContainer"
iocTypes == {readonlyContainerType, "*S7", "*S8", "*S9", "*SA", "*SB"}

\* The threads that share a container: two that resolve and one that
\* registers.
Resolvers == {"T1", "T2"}
Registrars == {"W"}
Threads == Resolvers \cup Registrars

\* A sync.RWMutex nobody holds: the read locks every thread holds, the
\* thread that holds the write lock, the threads inside Lock() that wait.
NoLocker == [readers |-> [t \in Threads |-> 0], writer |-> Nil, waiting |-> {}]

\* The lockers: container.locker of every iocContainer, and the locker of
\* its singletonContainer.
singletonLocker(c) == IF c = "P" THEN "P.singleton" ELSE "C.singleton"
Lockers == {"C", "P", "C.singleton", "P.singleton"}

\* The types the container over inject.Injector maps: the *struct type of
\* the callers that has no InitFunc and the two interfaces it implements,
\* and the *struct type whose InitFunc asks for the first.
injectInterfaces == {"IS", "IT"}
injectTypes == {"*S7", "*S8"} \cup injectInterfaces

\* Lifecycle
Singleton == "Singleton"
Transient == "Transient"

\* stateValue, and the nil *stateValue a map gives for a missing key.
NoState == [isInitialized |-> FALSE, val |-> Invalid]
stateValue(val) == [isInitialized |-> FALSE, val |-> val]

\* NewContainer(): the maps made by InitFunc, and the container mapped to
\* ReadonlyContainer as a singleton.
NewContainer(c) ==
    [t \in iocTypes |-> IF t = readonlyContainerType
                        THEN stateValue(Value(c)) ELSE NoState]

Init ==
    /\ bindings = [c \in Containers |-> New(c)]
    /\ parent = [c \in Containers |-> Nil]
    /\ heap = 0
    /\ last = NoCall
    /\ singleton = [c \in iocContainers |-> NewContainer(c)]
    /\ transient = [c \in iocContainers |-> [t \in iocTypes |-> Nil]]
    /\ iocParent = [c \in iocContainers |-> Nil]
    /\ instFields = [i \in {"s8", "s9"} |-> NilValue]
    /\ inits = [c \in iocContainers |-> [t \in iocTypes |-> 0]]
    /\ stacks = [t \in Threads |-> <<>>]
    /\ locker = [l \in Lockers |-> NoLocker]
    /\ invoked = [c \in iocContainers |-> [t \in iocTypes |-> 0]]
    /\ expected = [c \in Containers |-> New(c)]
    /\ values = [t \in injectTypes |-> Invalid]
    /\ typemapper = [t \in injectTypes |-> Nil]
    /\ resolved = {}

\* ------------------------------------------------------------------ Resolve
\* Resolve handing out a copy of the singleton instead of the instance.
RECURSIVE ResolveFromCopy(_, _, _, _)
ResolveFromCopy(c, serviceType, h, seen) ==
    IF Loaded(bindings[c], serviceType)
    THEN LET binding == bindings[c][serviceType] IN
         IF binding.Instance # Invalid
         THEN [status |-> "returned",
               val |-> [ref |-> binding.Instance.ref, n |-> h + 1],
               path |-> seen \o <<c>>, calls |-> <<>>, heap |-> h]
         ELSE [status |-> "returned",
               val |-> CallFactory(binding.InstanceFactory, h),
               path |-> seen \o <<c>>,
               calls |-> <<binding.InstanceFactory>>, heap |-> h + 1]
    ELSE IF parent[c] # Nil
    THEN IF \E i \in 1..Len(seen \o <<c>>) : (seen \o <<c>>)[i] = parent[c]
         THEN [status |-> "overflow", val |-> Invalid,
               path |-> seen \o <<c>>, calls |-> <<>>, heap |-> h]
         ELSE ResolveFromCopy(parent[c], serviceType, h, seen \o <<c>>)
    ELSE [status |-> "returned", val |-> Invalid, path |-> seen \o <<c>>,
          calls |-> <<>>, heap |-> h]

\* Resolve keeping the first product of a factory and handing it out again.
RECURSIVE ResolveFromMemo(_, _, _, _)
ResolveFromMemo(c, serviceType, h, seen) ==
    IF Loaded(bindings[c], serviceType)
    THEN LET binding == bindings[c][serviceType] IN
         IF binding.Instance # Invalid
         THEN [status |-> "returned", val |-> binding.Instance,
               path |-> seen \o <<c>>, calls |-> <<>>, heap |-> h]
         ELSE IF h = 0
         THEN [status |-> "returned",
               val |-> CallFactory(binding.InstanceFactory, h),
               path |-> seen \o <<c>>,
               calls |-> <<binding.InstanceFactory>>, heap |-> h + 1]
         ELSE [status |-> "returned",
               val |-> CallFactory(binding.InstanceFactory, 0),
               path |-> seen \o <<c>>, calls |-> <<>>, heap |-> h]
    ELSE IF parent[c] # Nil
    THEN IF \E i \in 1..Len(seen \o <<c>>) : (seen \o <<c>>)[i] = parent[c]
         THEN [status |-> "overflow", val |-> Invalid,
               path |-> seen \o <<c>>, calls |-> <<>>, heap |-> h]
         ELSE ResolveFromMemo(parent[c], serviceType, h, seen \o <<c>>)
    ELSE [status |-> "returned", val |-> Invalid, path |-> seen \o <<c>>,
          calls |-> <<>>, heap |-> h]

\* Resolve that never asks the parent.
ResolveFromLocalOnly(c, serviceType, h, seen) ==
    IF Loaded(bindings[c], serviceType)
    THEN LET binding == bindings[c][serviceType] IN
         IF binding.Instance # Invalid
         THEN [status |-> "returned", val |-> binding.Instance,
               path |-> seen \o <<c>>, calls |-> <<>>, heap |-> h]
         ELSE [status |-> "returned",
               val |-> CallFactory(binding.InstanceFactory, h),
               path |-> seen \o <<c>>,
               calls |-> <<binding.InstanceFactory>>, heap |-> h + 1]
    ELSE [status |-> "returned", val |-> Invalid, path |-> seen \o <<c>>,
          calls |-> <<>>, heap |-> h]

\* Resolve asking the parent before its own table.
RECURSIVE ResolveFromParentFirst(_, _, _, _)
ResolveFromParentFirst(c, serviceType, h, seen) ==
    LET up == IF parent[c] # Nil
                 /\ ~\E i \in 1..Len(seen \o <<c>>) :
                        (seen \o <<c>>)[i] = parent[c]
              THEN ResolveFromParentFirst(parent[c], serviceType, h,
                                          seen \o <<c>>)
              ELSE [status |-> "returned", val |-> Invalid,
                    path |-> seen \o <<c>>, calls |-> <<>>, heap |-> h] IN
    IF up.val # Invalid
    THEN up
    ELSE IF Loaded(bindings[c], serviceType)
    THEN LET binding == bindings[c][serviceType] IN
         IF binding.Instance # Invalid
         THEN [status |-> "returned", val |-> binding.Instance,
               path |-> seen \o <<c>>, calls |-> <<>>, heap |-> h]
         ELSE [status |-> "returned",
               val |-> CallFactory(binding.InstanceFactory, h),
               path |-> seen \o <<c>>,
               calls |-> <<binding.InstanceFactory>>, heap |-> h + 1]
    ELSE up

\* defaultContainer.Resolve(serviceType) on container c when h objects are
\* allocated and the containers of seen are the callers up the stack.
\* val: the reflect.Value returned; path: the containers consulted, in order;
\* calls: the factories invoked, in order; heap: the objects allocated
\* afterwards. Call on a nil func panics (status = "panic"). A chain that leads back into a container of seen never
\* returns: the recursion overflows the stack (status = "overflow").
RECURSIVE ResolveFrom(_, _, _, _)
ResolveFrom(c, serviceType, h, seen) ==
    IF Loaded(bindings[c], serviceType)
    THEN LET binding == bindings[c][serviceType] IN
         IF binding.Instance # Invalid
         THEN [status |-> "returned", val |-> binding.Instance,
               path |-> seen \o <<c>>, calls |-> <<>>, heap |-> h]
         ELSE IF IsNil(binding.InstanceFactory)
         THEN [status |-> "panic", val |-> Invalid,
               path |-> seen \o <<c>>, calls |-> <<>>, heap |-> h]
         ELSE [status |-> "returned",
               val |-> CallFactory(binding.InstanceFactory, h),
               path |-> seen \o <<c>>,
               calls |-> <<binding.InstanceFactory>>, heap |-> h + 1]
    ELSE IF parent[c] # Nil
    THEN IF \E i \in 1..Len(seen \o <<c>>) : (seen \o <<c>>)[i] = parent[c]
         THEN [status |-> "overflow", val |-> Invalid,
               path |-> seen \o <<c>>, calls |-> <<>>, heap |-> h]
         ELSE ResolveFrom(parent[c], serviceType, h, seen \o <<c>>)
    ELSE [status |-> "returned", val |-> Invalid, path |-> seen \o <<c>>,
          calls |-> <<>>, heap |-> h]

Resolve(c, serviceType, h) == ResolveFrom(c, serviceType, h, <<>>)

\* A call that overflowed the stack ended the process.
Running == last.status # "overflow"

\* The number of bindings callers have added to the tables b, and the number
\* of containers with a parent in p: what MaxBindings and MaxLinks bound.
NumBindings(b) ==
    Cardinality({ct \in Containers \X (ServiceTypes \ {resolverType}) :
                    Loaded(b[ct[1]], ct[2])})
NumLinks(p) == Cardinality({c \in Containers : p[c] # Nil})

\* GetService without the IsValid check on what Resolve returned.
GetServiceUnchecked(serviceType, h) ==
    LET r == Resolve(globalContainer, serviceType, h) IN
    [r EXCEPT !.status = IF r.val = Invalid THEN "panic" ELSE r.status]

\* GetService[TService]() : the instance returned, the zero value of TService
\* (nil) when nothing valid of that type is resolved.
GetService(serviceType, h) ==
    LET r == Resolve(globalContainer, serviceType, h) IN
    [r EXCEPT !.val = IF r.val = Invalid THEN NilValue
                      ELSE IF r.val # NilValue
                              /\ AssignableTo(TypeOf(r.val), serviceType)
                      THEN r.val
                      ELSE NilValue]

\* ------------------------------------------------------------------- Inject
\* The loop over the parameters passing on what Resolve returned, found or not.
RECURSIVE InjectArgsUnchecked(_, _, _, _)
InjectArgsUnchecked(target, in, h, calls) ==
    IF Len(in) = Len(target)
    THEN [status |-> "returned", args |-> in, heap |-> h, calls |-> calls]
    ELSE LET r == Resolve(globalContainer, target[Len(in) + 1], h) IN
         InjectArgsUnchecked(target, Append(in, r.val), r.heap,
                             calls \o r.calls)

\* The loop of Inject over the parameters of a func: target is the sequence
\* of the parameter types, in the arguments resolved so far, h the objects
\* allocated so far. status "panic": a parameter type was not found.
RECURSIVE InjectArgs(_, _, _, _)
InjectArgs(target, in, h, calls) ==
    IF Len(in) = Len(target)
    THEN [status |-> "returned", args |-> in, heap |-> h, calls |-> calls]
    ELSE LET argType == target[Len(in) + 1]
             r == Resolve(globalContainer, argType, h) IN
         IF r.status # "returned"
         THEN [status |-> r.status, args |-> in, heap |-> r.heap,
               calls |-> calls \o r.calls]
         ELSE IF r.val = Invalid
         THEN [status |-> "panic", args |-> in, heap |-> r.heap,
               calls |-> calls \o r.calls]
         ELSE InjectArgs(target, Append(in, r.val), r.heap, calls \o r.calls)

\* Inject(target) for a func: called is the number of calls of the func.
InjectFunc(target, h) ==
    LET r == InjectArgs(target, <<>>, h, <<>>) IN
    [status |-> r.status, heap |-> r.heap, calls |-> r.calls,
     called |-> IF r.status = "returned" THEN 1 ELSE 0,
     args |-> IF r.status = "returned" THEN r.args ELSE <<>>]

\* A struct field: its declared type, the value of its ioc-inject tag (Nil
\* when the field has no such tag) and the value it holds.
Field(type, tag, val) == [type |-> type, tag |-> tag, val |-> val]

\* The loop over the fields giving up at the first field that is not found.
RECURSIVE InjectFieldsStrict(_, _, _, _)
InjectFieldsStrict(fields, i, h, calls) ==
    IF i > Len(fields)
    THEN [status |-> "returned", fields |-> fields, heap |-> h, calls |-> calls]
    ELSE IF fields[i].type = resolverType \/ fields[i].tag = "true"
    THEN LET r == Resolve(globalContainer, fields[i].type, h) IN
         IF r.val # Invalid
         THEN InjectFieldsStrict([fields EXCEPT ![i].val = r.val], i + 1,
                                 r.heap, calls \o r.calls)
         ELSE [status |-> "panic", fields |-> fields, heap |-> r.heap,
               calls |-> calls \o r.calls]
    ELSE InjectFieldsStrict(fields, i + 1, h, calls)

\* The loop over the fields taking any ioc-inject tag for a request to inject.
RECURSIVE InjectFieldsAnyTag(_, _, _, _)
InjectFieldsAnyTag(fields, i, h, calls) ==
    IF i > Len(fields)
    THEN [status |-> "returned", fields |-> fields, heap |-> h, calls |-> calls]
    ELSE IF fields[i].type = resolverType \/ fields[i].tag # Nil
    THEN LET r == Resolve(globalContainer, fields[i].type, h) IN
         IF r.status = "overflow"
         THEN [status |-> "overflow", fields |-> fields, heap |-> r.heap,
               calls |-> calls \o r.calls]
         ELSE IF r.val # Invalid
         THEN InjectFieldsAnyTag([fields EXCEPT ![i].val = r.val], i + 1,
                                 r.heap, calls \o r.calls)
         ELSE InjectFieldsAnyTag(fields, i + 1, r.heap, calls \o r.calls)
    ELSE InjectFieldsAnyTag(fields, i + 1, h, calls)

\* The loop of Inject over the fields of a *struct: fields is the struct,
\* i the index of the next field to handle.
RECURSIVE InjectFields(_, _, _, _)
InjectFields(fields, i, h, calls) ==
    IF i > Len(fields)
    THEN [status |-> "returned", fields |-> fields, heap |-> h, calls |-> calls]
    ELSE LET field == fields[i]
             canInject == field.type = resolverType \/ field.tag = "true" IN
         IF canInject
         THEN LET r == Resolve(globalContainer, field.type, h) IN
              IF r.status # "returned"
              THEN [status |-> r.status, fields |-> fields, heap |-> r.heap,
                    calls |-> calls \o r.calls]
              ELSE IF r.val # Invalid
              THEN InjectFields([fields EXCEPT ![i].val = r.val], i + 1,
                                r.heap, calls \o r.calls)
              ELSE InjectFields(fields, i + 1, r.heap, calls \o r.calls)
         ELSE InjectFields(fields, i + 1, h, calls)

\* Inject(target) for a pointer to a struct.
InjectStruct(target, h) == InjectFields(target, 1, h, <<>>)

\* A field of a struct type: its name, its type, the value of its ioc-inject
\* tag, and whether its name is exported (reflect lets Set change it).
StructField(name, type, tag, exported) ==
    [name |-> name, type |-> type, tag |-> tag, exported |-> exported]

\* targetType.Elem() with its fields, for the pointers the callers pass that
\* are no pointers to a struct of their own making: a container, a
\* *serviceInstance1, a *client.
StructOf(targetType) ==
    CASE targetType = "*defaultContainer" ->
            <<StructField("bindings", "sync.Map", Nil, FALSE),
              StructField("parent", resolverType, Nil, FALSE)>>
      [] targetType = "*Client" ->
            <<StructField("F3", "IX", Nil, TRUE),
              StructField("F5", "IX", "true", TRUE)>>
      [] OTHER -> <<StructField("name", "string", Nil, FALSE)>>

\* The loop of Inject over the fields of the struct target points at. sets:
\* the fields set so far, as <<name, value>>. status "panic": Field(i) of the
\* zero Value that Elem() of a nil pointer is, or Set of an unexported field.
RECURSIVE InjectPointer(_, _, _, _, _)
InjectPointer(target, structType, i, h, sets) ==
    IF i > Len(structType)
    THEN [status |-> "returned", heap |-> h, sets |-> sets]
    ELSE LET field == structType[i]
             canInject == field.type = resolverType \/ field.tag = "true" IN
         IF canInject
         THEN LET r == Resolve(globalContainer, field.type, h) IN
              IF r.status # "returned"
              THEN [status |-> r.status, heap |-> r.heap, sets |-> sets]
              ELSE IF r.val # Invalid
              THEN IF IsNil(target) \/ ~field.exported
                   THEN [status |-> "panic", heap |-> r.heap, sets |-> sets]
                   ELSE InjectPointer(target, structType, i + 1, r.heap,
                                      Append(sets, <<field.name, r.val>>))
              ELSE InjectPointer(target, structType, i + 1, r.heap, sets)
         ELSE InjectPointer(target, structType, i + 1, h, sets)

\* Inject(target) for a target that is no func: reflect.TypeOf of the nil
\* interface is nil, and Kind() of it a nil dereference.
Inject(target, h) ==
    IF target = NilValue
    THEN [status |-> "panic", heap |-> h, sets |-> <<>>]
    ELSE IF Kind(TypeOf(target)) = "PointerToStruct"
    THEN InjectPointer(target, StructOf(TypeOf(target)), 1, h, <<>>)
    ELSE [status |-> "returned", heap |-> h, sets |-> <<>>]

\* ----------------------------------------------------------------- actions
\* The record of the registrations after a Register of container c that
\* returned err for binding: a registration that was refused does not count;
\* the first binding registered without canOverride stays, any other gives
\* way to the next.
Registered(c, err, binding) ==
    IF err # Nil \/ binding.ServiceType \notin ServiceTypes
    THEN expected
    ELSE LET before == expected[c][binding.ServiceType] IN
         IF before # NoBinding /\ ~before.CanOverride
         THEN expected
         ELSE [expected EXCEPT ![c][binding.ServiceType] = binding]

\* c.Resolve(serviceType), called by a user of container c.
DoResolve(c, serviceType) ==
    /\ Running
    /\ LET r == Resolve(c, serviceType, heap) IN
       /\ r.heap <= MaxAlloc
       /\ heap' = r.heap
       /\ last' = [NoCall EXCEPT !.op = "Resolve", !.c = c, !.t = serviceType,
                                 !.status = r.status, !.val = r.val,
                                 !.path = r.path, !.calls = r.calls]
    /\ UNCHANGED <<bindings, expected, injVars, parent, iocVars>>

\* GetService[serviceType]()
DoGetService(serviceType) ==
    /\ Running
    /\ LET r == GetService(serviceType, heap) IN
       /\ r.heap <= MaxAlloc
       /\ heap' = r.heap
       /\ last' = [NoCall EXCEPT !.op = "GetService", !.c = globalContainer,
                                 !.t = serviceType, !.status = r.status,
                                 !.val = r.val, !.path = r.path,
                                 !.calls = r.calls]
    /\ UNCHANGED <<bindings, expected, injVars, parent, iocVars>>

\* Inject(target), target a func with these parameter types.
DoInjectFunc(target) ==
    /\ Running
    /\ LET r == InjectFunc(target, heap) IN
       /\ r.heap <= MaxAlloc
       /\ heap' = r.heap
       /\ last' = [NoCall EXCEPT !.op = "InjectFunc", !.c = globalContainer,
                                 !.status = r.status, !.target = target,
                                 !.calls = r.calls, !.called = r.called,
                                 !.args = r.args]
    /\ UNCHANGED <<bindings, expected, injVars, parent, iocVars>>

\* Inject(target), target a pointer to a struct with these fields.
DoInjectStruct(target) ==
    /\ Running
    /\ LET r == InjectStruct(target, heap) IN
       /\ r.heap <= MaxAlloc
       /\ heap' = r.heap
       /\ last' = [NoCall EXCEPT !.op = "InjectStruct", !.c = globalContainer,
                                 !.status = r.status, !.target = target,
                                 !.calls = r.calls, !.fields = r.fields]
    /\ UNCHANGED <<bindings, expected, injVars, parent, iocVars>>

\* Inject(target), target nil, a pointer or a value that is no func. A
\* container's parent is the one field of the targets a Set could reach.
DoInject(target) ==
    /\ Running
    /\ LET r == Inject(target, heap)
           set == {i \in 1..Len(r.sets) : r.sets[i][1] = "parent"} IN
       /\ r.heap <= MaxAlloc
       /\ heap' = r.heap
       /\ parent' = IF target.ref \in Containers /\ set # {}
                     THEN [parent EXCEPT ![target.ref] =
                              r.sets[CHOOSE i \in set : TRUE][2].ref]
                     ELSE parent
       /\ last' = [NoCall EXCEPT !.op = "Inject", !.c = globalContainer,
                                 !.status = r.status, !.arg = target.ref,
                                 !.args = r.sets]
    /\ UNCHANGED <<bindings, expected, injVars, iocVars>>

\* SetParent putting the parent the container had behind the new one.
SetParentBehind(c, p) ==
    IF p # Nil /\ parent[c] # Nil
    THEN [parent EXCEPT ![c] = p, ![p] = parent[c]]
    ELSE [parent EXCEPT ![c] = p]

\* c.SetParent(p)
SetParent(c, p) == [parent EXCEPT ![c] = p]

\* last.val: the parent c had before the call.
DoSetParent(c, p) ==
    /\ Running
    /\ parent' = SetParent(c, p)
    /\ NumLinks(parent') <= MaxLinks
    /\ last' = [NoCall EXCEPT !.op = "SetParent", !.c = c, !.arg = p,
                              !.val = Value(parent[c])]
    /\ UNCHANGED <<bindings, expected, injVars, heap, iocVars>>

\* c.Register(serviceType, canOverride, singletonInstance, factory)
DoRegister(c, serviceType, canOverride, singletonInstance, factory) ==
    /\ Running
    /\ LET r == Register(bindings[c], serviceType, canOverride,
                         singletonInstance, factory) IN
       /\ bindings' = [bindings EXCEPT ![c] = r.table]
       /\ expected' = Registered(c, r.err,
                          serviceBinding(serviceType, canOverride,
                             ValueOf(singletonInstance),
                             IF singletonInstance # NilValue THEN Invalid
                             ELSE ValueOf(factory)))
       /\ last' = [NoCall EXCEPT !.op = "Register", !.c = c, !.t = serviceType,
                                 !.err = r.err, !.actual = r.actual,
                                 !.binding = serviceBinding(serviceType,
                                     canOverride, ValueOf(singletonInstance),
                                     ValueOf(factory))]
    /\ NumBindings(bindings') <= MaxBindings
    /\ UNCHANGED <<parent, heap, iocVars, injVars>>

\* AddSingleton[serviceType](canOverride, instance)
DoAddSingleton(serviceType, canOverride, instance) ==
    /\ Running
    /\ LET r == AddSingleton(bindings[globalContainer], serviceType,
                             canOverride, instance) IN
       /\ bindings' = [bindings EXCEPT ![globalContainer] = r.table]
       /\ expected' = Registered(globalContainer, r.err,
                          serviceBinding(serviceType, canOverride,
                             ValueOf(ToAny(serviceType, instance)), Invalid))
       /\ last' = [NoCall EXCEPT !.op = "AddSingleton", !.c = globalContainer,
                                 !.t = serviceType, !.status = r.status,
                                 !.err = r.err, !.actual = r.actual,
                                 !.arg = instance.ref,
                                 !.binding = serviceBinding(serviceType,
                                     canOverride,
                                     ValueOf(ToAny(serviceType, instance)),
                                     Invalid)]
    /\ NumBindings(bindings') <= MaxBindings
    /\ UNCHANGED <<parent, heap, iocVars, injVars>>

\* AddTransient[serviceType](canOverride, instanceFactory)
DoAddTransient(serviceType, canOverride, instanceFactory) ==
    /\ Running
    /\ LET r == AddTransient(bindings[globalContainer], serviceType,
                             canOverride, instanceFactory) IN
       /\ bindings' = [bindings EXCEPT ![globalContainer] = r.table]
       /\ expected' = Registered(globalContainer, r.err,
                          serviceBinding(serviceType, canOverride, Invalid,
                             ValueOf(FuncToAny(serviceType, instanceFactory))))
       /\ last' = [NoCall EXCEPT !.op = "AddTransient", !.c = globalContainer,
                                 !.t = serviceType, !.status = r.status,
                                 !.err = r.err, !.actual = r.actual,
                                 !.arg = instanceFactory.ref,
                                 !.binding = serviceBinding(serviceType,
                                     canOverride, Invalid,
                                     ValueOf(FuncToAny(serviceType,
                                                       instanceFactory)))]
    /\ NumBindings(bindings') <= MaxBindings
    /\ UNCHANGED <<parent, heap, iocVars, injVars>>

\* ------------------------------------------------ the binding table scenario
\* Callers register into globalContainer and a second container, in every
\* way Register accepts or refuses, and resolve from both.
TableContainers == {globalContainer, "A"}

\* The Register calls of the callers: every instance and factory as a
\* service of its own type, with and without permission to override, and
\* one call for each way a registration is refused or ignored.
RegisterCalls ==
    {<<"IX", o, v, NilValue>> : o \in BOOLEAN, v \in {Value("x1"), Value("x2")}}
    \cup {<<"*PY", o, Value("y1"), NilValue>> : o \in BOOLEAN}
    \cup {<<Out(f), o, NilValue, f>> : o \in BOOLEAN, f \in Factories}
    \cup {<<"IX", TRUE, NilValue, NilValue>>,
          <<Nil, TRUE, Value("x1"), NilValue>>,
          <<"SZ", TRUE, Value("x1"), NilValue>>,
          <<"IX", TRUE, Value("y1"), NilValue>>,
          <<"IX", TRUE, NilValue, Value("fy")>>,
          <<resolverType, TRUE, Value("A"), NilValue>>}

Next ==
    \/ \E c \in TableContainers, t \in ServiceTypes : DoResolve(c, t)
    \/ \E t \in ServiceTypes : DoGetService(t)
    \/ \E p \in {"A", Nil} : DoSetParent(globalContainer, p)
    \/ \E c \in TableContainers, a \in RegisterCalls :
          DoRegister(c, a[1], a[2], a[3], a[4])

Spec == Init /\ [][Next]_vars

\* ------------------------------------------------------ the validation scenario
\* Callers hand Register of a container of their own, and AddSingleton and
\* AddTransient, what these accept and everything they should refuse, and
\* resolve from that container and from globalContainer.

\* Register calls: no type, a plain struct type, nothing to bind, an instance
\* or a factory of another type, a value that is no func, a func with a
\* parameter, a func with two results, both an instance and a factory of
\* the service, and well-formed calls.
ValidateRegisterCalls ==
    {<<t, v, NilValue>> : t \in {Nil, "SZ", "IX", "*PY"},
                          v \in {NilValue, Value("x1"), Value("y1")}}
    \cup {<<t, NilValue, f>> :
             t \in {Nil, "SZ", "IX", "*PY"},
             f \in {Value("fx"), Value("fy"), Value("x1")} \cup OtherFuncs}
    \cup {<<"IX", Value("x1"), Value("fx")>>,
          <<"*PY", Value("y1"), Value("fy")>>}

\* AddSingleton calls: TService and an instance of that type, nil included.
AddSingletonCalls ==
    {<<"IX", Value("x1")>>, <<"IX", NilValue>>, <<"*PY", Value("y1")>>,
     <<"*PY", NilValue>>, <<"SZ", StructValue>>}

\* AddTransient calls: TService and a func() TService, nil included.
AddTransientCalls ==
    {<<"IX", Value("fx")>>, <<"IX", NilValue>>, <<"*PY", Value("fy")>>,
     <<"*PY", NilValue>>, <<"SZ", Value("fz")>>}

NextValidate ==
    \/ \E a \in ValidateRegisterCalls : DoRegister("A", a[1], FALSE, a[2], a[3])
    \/ \E a \in AddSingletonCalls : DoAddSingleton(a[1], FALSE, a[2])
    \/ \E a \in AddTransientCalls : DoAddTransient(a[1], FALSE, a[2])
    \/ \E t \in {"IX", "*PY"} : DoResolve("A", t)
    \/ \E t \in {"IX", "*PY"} : DoGetService(t)

SpecValidate == Init /\ [][NextValidate]_vars

\* --------------------------------------------------- the parent chain scenario
\* Callers build chains (cycles included) out of the three containers, each
\* container holding its own instance or a factory for IX, and resolve from
\* every container.
OwnInstance(c) ==
    CASE c = globalContainer -> Value("x1")
      [] c = "A" -> Value("x2")
      [] OTHER -> Value("x3")

ChainRegisterCalls(c) ==
    {<<"IX", FALSE, OwnInstance(c), NilValue>>,
     <<"IX", FALSE, NilValue, Value("fx")>>}

NextChain ==
    \/ \E c \in Containers, t \in ServiceTypes : DoResolve(c, t)
    \/ \E t \in ServiceTypes : DoGetService(t)
    \/ \E c \in Containers, p \in Containers \cup {Nil} : DoSetParent(c, p)
    \/ \E c \in Containers : \E a \in ChainRegisterCalls(c) :
          DoRegister(c, a[1], a[2], a[3], a[4])

SpecChain == Init /\ [][NextChain]_vars

\* ------------------------------------------------------ the injection scenario
\* Callers register their services for IX and *PY in globalContainer and in
\* a container they may set as its parent, and inject into funcs and structs.
InjectRegisterCalls(c) ==
    {<<"IX", FALSE, OwnInstance(c), NilValue>>,
     <<"IX", FALSE, NilValue, Value("fx")>>,
     <<"*PY", FALSE, Value("y1"), NilValue>>,
     <<"*PY", FALSE, NilValue, Value("fy")>>}

\* The parameter lists of the funcs injected into.
FuncTargets ==
    {<<"IX">>, <<"IX", "*PY">>, <<"*PY", "IX">>, <<resolverType, "IX">>,
     <<"IX", "IX">>}

\* The structs injected into: fields without a tag, with the tag
\* ioc-inject:"true", with other values of the tag, a Resolver, and a field
\* that holds an object of the caller (x3, registered nowhere) already.
StructTargets ==
    {<<Field("IX", Nil, NilValue), Field("*PY", Nil, NilValue),
       Field("IX", "true", NilValue), Field("*PY", "true", NilValue)>>,
     <<Field(resolverType, Nil, NilValue), Field("*PY", "true", NilValue),
       Field("IX", "true", NilValue)>>,
     <<Field("IX", "false", NilValue), Field("*PY", "TRUE", NilValue),
       Field("IX", "true", Value("x3")), Field("*PY", "", NilValue),
       Field(resolverType, Nil, NilValue)>>}

\* The targets that are neither a func nor a struct of the caller: nil, nil
\* pointers to structs, a zero reflect.Value, and containers.
ValueTargets ==
    {NilValue, Value("nilpy"), Value("nilcl"), Value("rv"),
     Value(globalContainer), Value("A")}

NextInject ==
    \/ \E target \in FuncTargets : DoInjectFunc(target)
    \/ \E target \in StructTargets : DoInjectStruct(target)
    \/ \E target \in ValueTargets : DoInject(target)
    \/ \E p \in {"A", Nil} : DoSetParent(globalContainer, p)
    \/ \E c \in TableContainers : \E a \in InjectRegisterCalls(c) :
          DoRegister(c, a[1], a[2], a[3], a[4])

SpecInject == Init /\ [][NextInject]_vars

\* ------------------------------------- the containers of the first versions
\* iocContainer: NewContainer, Register(val, lifecycle), Resolve, Invoke and
\* SetParent over singletonContainer and transientContainer, whose Get runs
\* the InitFunc of an Initializer through the invoker the container hands it.

\* The values the callers register: two *S7, a *S8 whose InitFunc returns
\* func(*S7), a *S9 whose InitFunc returns func(*S9), and a *SA and a *SB
\* whose InitFunc return func(*SB) and func(*SA).
iocInstances == {Value("s7"), Value("s7n"), Value("s8"), Value("s9")}

\* val.Interface().(Initializer): the type has the method InitFunc.
IsInitializer(v) == TypeOf(v) \in {"*iocContainer", "*S8", "*S9", "*SA", "*SB"}

\* The parameter types of the func that InitFunc() of v returns.
InitFunc(v) ==
    CASE TypeOf(v) = "*S8" -> <<"*S7">>
      [] TypeOf(v) = "*S9" -> <<"*S9">>
      [] TypeOf(v) = "*SA" -> <<"*SB">>
      [] TypeOf(v) = "*SB" -> <<"*SA">>
      [] OTHER -> <<>>

\* FromPtrType
FromPtrType(typ) ==
    CASE typ = "*S7" -> "S7"
      [] typ = "*S8" -> "S8"
      [] typ = "*S9" -> "S9"
      [] typ = "*SA" -> "SA"
      [] typ = "*SB" -> "SB"
      [] OTHER -> typ

\* What a call works on: sv the valuemappers, fld the fields of the
\* instances, h the objects allocated, cnt the InitFunc() calls per entry,
\* ran the funcs of initializers called, with their arguments, in order.
Frame(sv, fld, h, cnt) ==
    [sv |-> sv, fld |-> fld, h |-> h, cnt |-> cnt, ran |-> <<>>]

Overflow(st) == [status |-> "overflow", val |-> Invalid, err |-> Nil, st |-> st]

RECURSIVE iocInvoke(_, _, _, _, _, _)
RECURSIVE iocResolve(_, _, _, _)

\* Get marking the entry initialized only when the invoker found every
\* argument: a failed initialization is tried again by the next Get.
singletonGetRetry(c, typ, st, stack) ==
    LET stateVal == st.sv[c][typ] IN
    IF stateVal # NoState
    THEN IF ~stateVal.isInitialized /\ IsInitializer(stateVal.val)
         THEN IF <<c, typ>> \in stack
              THEN Overflow(st)
              ELSE LET r == iocInvoke(c, stateVal.val, InitFunc(stateVal.val),
                                      <<>>,
                                      [st EXCEPT !.cnt[c][typ] = @ + 1],
                                      stack \cup {<<c, typ>>}) IN
                   IF r.status = "overflow"
                   THEN Overflow(r.st)
                   ELSE [status |-> "returned", val |-> stateVal.val,
                         err |-> Nil,
                         st |-> [r.st EXCEPT
                                    !.sv[c][typ].isInitialized = (r.err = Nil)]]
         ELSE [status |-> "returned", val |-> stateVal.val, err |-> Nil,
               st |-> st]
    ELSE [status |-> "returned", val |-> Invalid, err |-> Nil, st |-> st]

\* singletonContainer.Get(typ, invoker) of container c, invoker the Invoke of
\* c with its error dropped. stack: the entries whose Get is up the stack; an
\* initializer that asks for an entry of the stack recurses without end.
singletonGet(c, typ, st, stack) ==
    LET stateVal == st.sv[c][typ] IN
    IF stateVal # NoState
    THEN IF ~stateVal.isInitialized /\ IsInitializer(stateVal.val)
         THEN IF <<c, typ>> \in stack
              THEN Overflow(st)
              ELSE LET r == iocInvoke(c, stateVal.val, InitFunc(stateVal.val),
                                      <<>>,
                                      [st EXCEPT !.cnt[c][typ] = @ + 1],
                                      stack \cup {<<c, typ>>}) IN
                   IF r.status = "overflow"
                   THEN Overflow(r.st)
                   ELSE [status |-> "returned", val |-> stateVal.val,
                         err |-> Nil,
                         st |-> [r.st EXCEPT
                                    !.sv[c][typ].isInitialized = TRUE]]
         ELSE [status |-> "returned", val |-> stateVal.val, err |-> Nil,
               st |-> st]
    ELSE [status |-> "returned", val |-> Invalid, err |-> Nil, st |-> st]

\* transientContainer.Get(typ, invoker): reflect.New(realTyp), a pointer to a
\* new zero value, initialized through the invoker on every call.
transientGet(c, typ, st, stack) ==
    LET realTyp == transient[c][typ] IN
    IF realTyp # Nil
    THEN LET val == [ref |-> realTyp, n |-> st.h + 1]
             st1 == [st EXCEPT !.h = @ + 1] IN
         IF IsInitializer(val)
         THEN IF <<c, typ>> \in stack
              THEN Overflow(st1)
              ELSE LET r == iocInvoke(c, val, InitFunc(val), <<>>, st1,
                                      stack \cup {<<c, typ>>}) IN
                   IF r.status = "overflow"
                   THEN Overflow(r.st)
                   ELSE [status |-> "returned", val |-> val, err |-> Nil,
                         st |-> r.st]
         ELSE [status |-> "returned", val |-> val, err |-> Nil, st |-> st1]
    ELSE [status |-> "returned", val |-> Invalid, err |-> Nil, st |-> st]

\* iocContainer.Invoke(f) of container c, f the func the InitFunc of inst
\* returned, with the parameter types f; in: the arguments resolved so far.
\* The func stores its argument in the field of inst.
iocInvoke(c, inst, f, in, st, stack) ==
    IF Len(in) = Len(f)
    THEN [status |-> "returned", val |-> Invalid, err |-> Nil,
          st |-> [st EXCEPT
                    !.fld = IF inst.n = 0 /\ inst.ref \in DOMAIN st.fld
                               /\ Len(in) > 0
                            THEN [st.fld EXCEPT ![inst.ref] = in[1]]
                            ELSE st.fld,
                    !.ran = Append(@, [inst |-> inst, args |-> in])]]
    ELSE LET argType == f[Len(in) + 1]
             r == iocResolve(c, argType, st, stack) IN
         IF r.status = "overflow"
         THEN Overflow(r.st)
         ELSE IF r.val = Invalid
         THEN [status |-> "returned", val |-> Invalid,
               err |-> "Value not found for type", st |-> r.st]
         ELSE iocInvoke(c, inst, f, Append(in, r.val), r.st, stack)

\* iocContainer.Resolve(typ) of container c.
iocResolve(c, typ, st, stack) ==
    IF transient[c][typ] # Nil
    THEN transientGet(c, typ, st, stack)
    ELSE IF st.sv[c][typ] # NoState
    THEN singletonGet(c, typ, st, stack)
    ELSE IF iocParent[c] # Nil
    THEN iocResolve(iocParent[c], typ, st, stack)
    ELSE [status |-> "returned", val |-> Invalid, err |-> Nil, st |-> st]

\* iocContainer.Register(val, lifecycle) of container c: the maps afterwards.
iocRegister(c, val, lifecycle) ==
    LET typ == TypeOf(val)
        actual == IF transient[c][typ] # Nil THEN Transient
                  ELSE IF singleton[c][typ] # NoState THEN Singleton
                  ELSE lifecycle IN
    IF actual = Transient
    THEN [singleton |-> singleton,
          transient |-> [transient EXCEPT ![c][typ] = FromPtrType(typ)],
          lifecycle |-> actual]
    ELSE [singleton |-> [singleton EXCEPT ![c][typ] = stateValue(val)],
          transient |-> transient,
          lifecycle |-> actual]

\* The number of types the callers have mapped.
NumMapped(sv, tr) ==
    Cardinality({ct \in iocContainers \X (iocTypes \ {readonlyContainerType}) :
                    sv[ct[1]][ct[2]] # NoState \/ tr[ct[1]][ct[2]] # Nil})

\* c.Register(val, lifecycle)
DoIocRegister(c, val, lifecycle) ==
    /\ Running
    /\ LET r == iocRegister(c, val, lifecycle) IN
       /\ singleton' = r.singleton
       /\ transient' = r.transient
       /\ inits' = [inits EXCEPT ![c][TypeOf(val)] = 0]
       /\ last' = [NoCall EXCEPT !.op = "iocRegister", !.c = c,
                                 !.t = TypeOf(val), !.val = val,
                                 !.lifecycle = r.lifecycle]
    /\ NumMapped(singleton', transient') <= MaxMapped
    /\ UNCHANGED <<bindings, expected, injVars, parent, heap, iocParent, instFields, thrVars>>

\* c.Resolve(typ)
DoIocResolve(c, typ) ==
    /\ Running
    /\ LET r == iocResolve(c, typ, Frame(singleton, instFields, heap, inits), {}) IN
       /\ r.st.h <= MaxAlloc
       /\ singleton' = r.st.sv
       /\ instFields' = r.st.fld
       /\ heap' = r.st.h
       /\ inits' = r.st.cnt
       /\ last' = [NoCall EXCEPT !.op = "iocResolve", !.c = c, !.t = typ,
                                 !.status = r.status, !.val = r.val,
                                 !.ran = r.st.ran]
    /\ UNCHANGED <<bindings, expected, injVars, parent, transient, iocParent, thrVars>>

\* c.SetParent(p)
DoIocSetParent(c, p) ==
    /\ Running
    /\ iocParent' = [iocParent EXCEPT ![c] = p]
    /\ last' = [NoCall EXCEPT !.op = "iocSetParent", !.c = c, !.arg = p]
    /\ UNCHANGED <<bindings, expected, injVars, parent, heap, singleton, transient, instFields,
                   inits, thrVars>>

\* The initializer scenario: callers register their instances as singletons
\* or transients in the parent, an instance of their own for *S7 and the *S8
\* in the child, and resolve from both.
iocRegisterCalls(c) ==
    IF c = "P"
    THEN {Value("s7"), Value("s8"), Value("s9")} \X {Singleton, Transient}
    ELSE {Value("s7n"), Value("s8")} \X {Singleton}

NextIoc ==
    \/ \E c \in iocContainers : \E a \in iocRegisterCalls(c) :
          DoIocRegister(c, a[1], a[2])
    \/ \E c \in iocContainers, t \in iocTypes : DoIocResolve(c, t)
    \/ \E p \in {"P", Nil} : DoIocSetParent("C", p)

SpecIoc == Init /\ [][NextIoc]_vars

\* The scenario of the initializers that need each other: callers register
\* a *SA and a *SB, in either container and under either lifecycle, and *S7,
\* and resolve them from both containers.
cycleRegisterCalls == {Value("sa"), Value("sb"), Value("s7")} \X {Singleton, Transient}
cycleTypes == {"*SA", "*SB", "*S7"}

NextCycle ==
    \/ \E c \in iocContainers : \E a \in cycleRegisterCalls :
          DoIocRegister(c, a[1], a[2])
    \/ \E c \in iocContainers, t \in cycleTypes : DoIocResolve(c, t)
    \/ \E p \in {"P", Nil} : DoIocSetParent("C", p)

SpecCycle == Init /\ [][NextCycle]_vars

\* ------------------------------------------- the container over the injector
\* The iocContainer that keeps its singletons in an inject.Injector and its
\* transients in typemapper. The callers register instances of *S7, which is
\* no Initializer, and a *S8, whose InitFunc returns a func(*S7).

\* inject.InterfaceOf(ifacePtr): the interface type a nil pointer to it names.
InterfaceOf(ifacePtr) ==
    CASE ifacePtr = "*IS" -> "IS"
      [] ifacePtr = "*IT" -> "IT"

\* fromPtrTypeOf(obj), obj given by its type: the type with every pointer
\* taken off.
fromPtrTypeOf(typ) ==
    CASE typ = "*IS" -> "IS"
      [] typ = "*IT" -> "IT"
      [] OTHER -> FromPtrType(typ)

\* injector.Get(t): the value mapped to t, or for an interface with no value
\* of its own that of a mapped type that implements it, the first the
\* iteration over the map meets; the set of what it may return.
injectGet(t) ==
    IF values[t] # Invalid
    THEN {values[t]}
    ELSE IF t \in injectInterfaces /\ values["*S7"] # Invalid
    THEN {values["*S7"]}
    ELSE {Invalid}

\* iocContainer.Resolve(typ) and iocContainer.Invoke(f) of the container, which
\* has no parent; h the objects allocated, fld the fields of the instances.
\* Resolve: the singleton of the injector, or else a new instance of the
\* type typemapper gives, its initializer invoked, or else the zero Value.
\* Invoke (inst the instance whose InitFunc returned f, f the parameter
\* types, in the arguments resolved so far): an error at the first parameter
\* that does not resolve, or else the call of the func, which stores its
\* argument in the field of inst. Both give the set of possible outcomes.
RECURSIVE injectResolve(_, _, _), injectInvoke(_, _, _, _, _)
injectResolve(typ, h, fld) ==
    UNION {IF val # Invalid
           THEN {[val |-> val, lifecycle |-> Singleton, h |-> h, fld |-> fld,
                  ran |-> <<>>]}
           ELSE IF typemapper[typ] # Nil
           THEN LET obj == [ref |-> typemapper[typ], n |-> h + 1] IN
                IF IsInitializer(obj)
                THEN {[val |-> obj, lifecycle |-> Transient, h |-> o.h,
                       fld |-> o.fld, ran |-> o.ran] :
                        o \in injectInvoke(obj, InitFunc(obj), <<>>, h + 1, fld)}
                ELSE {[val |-> obj, lifecycle |-> Transient, h |-> h + 1,
                      fld |-> fld, ran |-> <<>>]}
           ELSE {[val |-> Invalid, lifecycle |-> Nil, h |-> h, fld |-> fld,
                  ran |-> <<>>]} :
           val \in injectGet(typ)}

injectInvoke(inst, f, in, h, fld) ==
    IF Len(in) = Len(f)
    THEN {[err |-> Nil, h |-> h,
           fld |-> IF inst.n = 0 /\ inst.ref \in DOMAIN fld /\ Len(in) > 0
                   THEN [fld EXCEPT ![inst.ref] = in[1]]
                   ELSE fld,
           ran |-> <<[inst |-> inst, args |-> in]>>]}
    ELSE UNION {IF r.val = Invalid
                THEN {[err |-> "Value not found for type", h |-> r.h,
                       fld |-> r.fld, ran |-> r.ran]}
                ELSE {[o EXCEPT !.ran = r.ran \o @] :
                         o \in injectInvoke(inst, f, Append(in, r.val), r.h,
                                            r.fld)} :
                r \in injectResolve(f[Len(in) + 1], h, fld)}

\* What Register and RegisterTo do for a singleton before they map it: the
\* InitFunc of an Initializer is invoked, the error of Invoke dropped.
injectInitialize(val) ==
    IF IsInitializer(val)
    THEN injectInvoke(val, InitFunc(val), <<>>, heap, instFields)
    ELSE {[err |-> Nil, h |-> heap, fld |-> instFields, ran |-> <<>>]}

\* iocContainer.RegisterTo(val, ifacePtr, lifecycle): the lifecycle is that
\* of the mapping of the type of val when there is one; the binding is
\* stored under the interface. The set of possible outcomes.
injectRegisterTo(val, ifacePtr, lifecycle) ==
    LET actual == IF values[TypeOf(val)] # Invalid THEN Singleton
                  ELSE IF typemapper[TypeOf(val)] # Nil THEN Transient
                  ELSE lifecycle IN
    IF actual = Singleton
    THEN {[values |-> [values EXCEPT ![InterfaceOf(ifacePtr)] = val],
           typemapper |-> typemapper, lifecycle |-> actual,
           h |-> o.h, fld |-> o.fld, ran |-> o.ran] :
            o \in injectInitialize(val)}
    ELSE {[values |-> values,
           typemapper |-> [typemapper EXCEPT ![fromPtrTypeOf(ifacePtr)] =
                                                fromPtrTypeOf(TypeOf(val))],
           lifecycle |-> actual, h |-> heap, fld |-> instFields,
           ran |-> <<>>]}

\* iocContainer.Register(val, lifecycle) of the same container.
injectRegister(val, lifecycle) ==
    LET typ == TypeOf(val)
        actual == IF values[typ] # Invalid THEN Singleton
                  ELSE IF typemapper[typ] # Nil THEN Transient
                  ELSE lifecycle IN
    IF actual = Singleton
    THEN {[values |-> [values EXCEPT ![typ] = val],
           typemapper |-> typemapper, lifecycle |-> actual,
           h |-> o.h, fld |-> o.fld, ran |-> o.ran] :
            o \in injectInitialize(val)}
    ELSE {[values |-> values,
           typemapper |-> [typemapper EXCEPT ![typ] = FromPtrType(typ)],
           lifecycle |-> actual, h |-> heap, fld |-> instFields,
           ran |-> <<>>]}

\* container.Register(val, lifecycle)
DoInjectRegister(val, lifecycle) ==
    /\ \E r \in injectRegister(val, lifecycle) :
          /\ r.h <= MaxAlloc
          /\ values' = r.values
          /\ typemapper' = r.typemapper
          /\ heap' = r.h
          /\ instFields' = r.fld
          /\ resolved' = IF r.lifecycle = Singleton
                         THEN resolved \ {TypeOf(val)} ELSE resolved
          /\ last' = [NoCall EXCEPT !.op = "injectRegister",
                                    !.t = TypeOf(val), !.val = val,
                                    !.arg = lifecycle,
                                    !.lifecycle = r.lifecycle, !.ran = r.ran]
    /\ UNCHANGED <<bindings, expected, parent, singleton, transient, iocParent,
                   inits, thrVars>>

\* container.RegisterTo(val, ifacePtr, lifecycle)
DoInjectRegisterTo(val, ifacePtr, lifecycle) ==
    /\ \E r \in injectRegisterTo(val, ifacePtr, lifecycle) :
          /\ r.h <= MaxAlloc
          /\ values' = r.values
          /\ typemapper' = r.typemapper
          /\ heap' = r.h
          /\ instFields' = r.fld
          /\ resolved' = IF r.lifecycle = Singleton
                         THEN resolved \ {InterfaceOf(ifacePtr)} ELSE resolved
          /\ last' = [NoCall EXCEPT !.op = "injectRegisterTo",
                                    !.t = InterfaceOf(ifacePtr), !.val = val,
                                    !.arg = lifecycle,
                                    !.lifecycle = r.lifecycle, !.ran = r.ran]
    /\ UNCHANGED <<bindings, expected, parent, singleton, transient, iocParent,
                   inits, thrVars>>

\* container.Resolve(typ)
DoInjectResolve(typ) ==
    /\ \E r \in injectResolve(typ, heap, instFields) :
          /\ r.h <= MaxAlloc
          /\ heap' = r.h
          /\ instFields' = r.fld
          /\ resolved' = IF r.lifecycle = Singleton
                         THEN resolved \cup {typ} ELSE resolved
          /\ last' = [NoCall EXCEPT !.op = "injectResolve", !.t = typ,
                                    !.val = r.val, !.lifecycle = r.lifecycle,
                                    !.ran = r.ran]
    /\ UNCHANGED <<bindings, expected, parent, singleton, transient, iocParent,
                   inits, thrVars, values, typemapper>>

\* The callers register a *S7 and a *S8, as themselves and as the
\* interfaces, under both lifecycles, and resolve every type.
injectInstances == {Value("s7"), Value("s8")}

NextInjector ==
    \/ \E val \in injectInstances, lifecycle \in {Singleton, Transient} :
          DoInjectRegister(val, lifecycle)
    \/ \E val \in injectInstances, ifacePtr \in {"*IS", "*IT"},
          lifecycle \in {Singleton, Transient} :
          DoInjectRegisterTo(val, ifacePtr, lifecycle)
    \/ \E typ \in injectTypes : DoInjectResolve(typ)

SpecInjector == Init /\ [][NextInjector]_vars

\* ------------------------------------------------- threads on one container
\* Threads share the container P: iocContainer.Resolve holds the read lock of
\* the container's locker from its first statement to its return (defer),
\* iocContainer.Register the write lock; Get of singletonContainer and of
\* transientContainer take no lock. A step of a thread is one access to the
\* shared state.

\* A call a thread is in. pc: the statement it is at; inst: the instance
\* whose initializer it runs; in: the arguments resolved for the
\* initializer so far; lc: the lifecycle of inst; val: what it returns.
ResolveFrame(c, typ) ==
    [op |-> "Resolve", c |-> c, typ |-> typ, pc |-> "rlock", inst |-> Invalid,
     in |-> <<>>, lc |-> Nil, val |-> Invalid]
RegisterFrame(c, val, lifecycle) ==
    [op |-> "Register", c |-> c, typ |-> TypeOf(val), pc |-> "lock",
     inst |-> val, in |-> <<>>, lc |-> lifecycle, val |-> Invalid]

\* sync.RWMutex: RLock waits while a writer holds the lock or is inside
\* Lock(); Lock waits for the readers and the writer to leave.
CanRLock(l) == l.writer = Nil /\ l.waiting = {}
CanLock(l) == l.writer = Nil /\ \A u \in Threads : l.readers[u] = 0

\* The call a thread is in, and the stack with that call replaced by f.
Top(t) == stacks[t][Len(stacks[t])]
SetTop(t, f) == [stacks EXCEPT ![t][Len(stacks[t])] = f]
At(t, op, pc) == stacks[t] # <<>> /\ Top(t).op = op /\ Top(t).pc = pc

\* singletonContainer.Get marking the entry initialized when it finds it,
\* before it calls the invoker.
singletonGetEnterFlagFirst(stateVal) ==
    [invoke |-> ~stateVal.isInitialized /\ IsInitializer(stateVal.val),
     stateVal |-> [stateVal EXCEPT !.isInitialized =
                      @ \/ IsInitializer(stateVal.val)]]

\* singletonContainer.Get reading the entry it found: whether it calls the
\* invoker, and the entry it leaves.
singletonGetEnter(stateVal) ==
    [invoke |-> ~stateVal.isInitialized /\ IsInitializer(stateVal.val),
     stateVal |-> stateVal]

\* Thread t calls c.Resolve(typ).
ThrCallResolve(t, c, typ) ==
    /\ stacks[t] = <<>>
    /\ stacks' = [stacks EXCEPT ![t] = <<ResolveFrame(c, typ)>>]
    /\ UNCHANGED <<bindings, expected, injVars, parent, heap, last, singleton, transient,
                   iocParent, instFields, inits, locker, invoked>>

\* container.locker.RLock()
ThrRLock(t) ==
    /\ At(t, "Resolve", "rlock")
    /\ CanRLock(locker[Top(t).c])
    /\ locker' = [locker EXCEPT ![Top(t).c].readers[t] = @ + 1]
    /\ stacks' = SetTop(t, [Top(t) EXCEPT !.pc = "transient"])
    /\ UNCHANGED <<bindings, expected, injVars, parent, heap, last, singleton, transient,
                   iocParent, instFields, inits, invoked>>

\* container.transient.Get(typ, invoker), up to the call of the invoker.
ThrTransientGet(t) ==
    /\ At(t, "Resolve", "transient")
    /\ LET f == Top(t)
           realTyp == transient[f.c][f.typ]
           val == [ref |-> realTyp, n |-> heap + 1] IN
       IF realTyp # Nil
       THEN /\ heap < MaxAlloc
            /\ heap' = heap + 1
            /\ stacks' = SetTop(t, IF IsInitializer(val)
                                   THEN [f EXCEPT !.pc = "invoke",
                                                  !.inst = val,
                                                  !.lc = Transient]
                                   ELSE [f EXCEPT !.pc = "return",
                                                  !.val = val])
       ELSE /\ heap' = heap
            /\ stacks' = SetTop(t, [f EXCEPT !.pc = "singleton"])
    /\ UNCHANGED <<bindings, expected, injVars, parent, last, singleton, transient, iocParent,
                   instFields, inits, locker, invoked>>

\* container.singleton.Get(typ, invoker), up to the call of the invoker.
ThrSingletonGet(t) ==
    /\ At(t, "Resolve", "singleton")
    /\ LET f == Top(t)
           stateVal == singleton[f.c][f.typ]
           e == singletonGetEnter(stateVal) IN
       IF stateVal # NoState
       THEN /\ singleton' = [singleton EXCEPT ![f.c][f.typ] = e.stateVal]
            /\ inits' = IF e.invoke
                        THEN [inits EXCEPT ![f.c][f.typ] = @ + 1]
                        ELSE inits
            /\ stacks' = SetTop(t, IF e.invoke
                                   THEN [f EXCEPT !.pc = "invoke",
                                                  !.inst = stateVal.val,
                                                  !.lc = Singleton]
                                   ELSE [f EXCEPT !.pc = "return",
                                                  !.val = stateVal.val])
       ELSE /\ stacks' = SetTop(t, [f EXCEPT !.pc = "parent"])
            /\ UNCHANGED <<singleton, inits>>
    /\ UNCHANGED <<bindings, expected, injVars, parent, heap, last, transient, iocParent,
                   instFields, locker, invoked>>

\* container.Invoke(f): the Resolve of the next parameter, or the call of
\* the func once every parameter is resolved.
ThrInvoke(t) ==
    /\ At(t, "Resolve", "invoke")
    /\ LET f == Top(t)
           params == InitFunc(f.inst) IN
       IF Len(f.in) < Len(params)
       THEN /\ stacks' = [stacks EXCEPT ![t] =
                             Append(@, ResolveFrame(f.c, params[Len(f.in) + 1]))]
            /\ UNCHANGED instFields
       ELSE /\ stacks' = SetTop(t, [f EXCEPT !.pc = "invoked"])
            /\ instFields' = IF f.inst.n = 0 /\ f.inst.ref \in DOMAIN instFields
                                /\ Len(f.in) > 0
                             THEN [instFields EXCEPT ![f.inst.ref] = f.in[1]]
                             ELSE instFields
    /\ UNCHANGED <<bindings, expected, injVars, parent, heap, last, singleton, transient,
                   iocParent, inits, locker, invoked>>

\* The invoker has returned: Get of singletonContainer sets isInitialized.
ThrInvoked(t) ==
    /\ At(t, "Resolve", "invoked")
    /\ LET f == Top(t) IN
       /\ stacks' = SetTop(t, [f EXCEPT !.pc = "return", !.val = f.inst])
       /\ IF f.lc = Singleton
          THEN /\ singleton' = [singleton EXCEPT
                                   ![f.c][f.typ].isInitialized = TRUE]
               /\ invoked' = [invoked EXCEPT ![f.c][f.typ] = @ + 1]
          ELSE UNCHANGED <<singleton, invoked>>
    /\ UNCHANGED <<bindings, expected, injVars, parent, heap, last, transient, iocParent,
                   instFields, inits, locker>>

\* Neither Get found the type: container.parent.Resolve(typ), if any.
ThrParent(t) ==
    /\ At(t, "Resolve", "parent")
    /\ LET f == Top(t) IN
       stacks' = IF iocParent[f.c] # Nil
                 THEN [stacks EXCEPT ![t] =
                          Append(@, ResolveFrame(iocParent[f.c], f.typ))]
                 ELSE SetTop(t, [f EXCEPT !.pc = "return", !.val = Invalid])
    /\ UNCHANGED <<bindings, expected, injVars, parent, heap, last, singleton, transient,
                   iocParent, instFields, inits, locker, invoked>>

\* return val, after the deferred container.locker.RUnlock(): to Invoke, to
\* the child's Resolve, or to the caller of the thread.
ThrReturn(t) ==
    /\ At(t, "Resolve", "return")
    /\ LET f == Top(t)
           rest == SubSeq(stacks[t], 1, Len(stacks[t]) - 1)
           caller == rest[Len(rest)] IN
       /\ locker' = [locker EXCEPT ![f.c].readers[t] = @ - 1]
       /\ IF rest = <<>>
          THEN /\ stacks' = [stacks EXCEPT ![t] = <<>>]
               /\ last' = [NoCall EXCEPT !.op = "ThrResolve", !.c = f.c,
                                         !.t = f.typ, !.val = f.val,
                                         !.arg = t, !.lifecycle = f.lc,
                                         !.called = invoked[f.c][f.typ]]
          ELSE /\ stacks' = [stacks EXCEPT ![t] =
                  [rest EXCEPT ![Len(rest)] =
                      IF caller.pc = "parent"
                      THEN [caller EXCEPT !.pc = "return", !.val = f.val]
                      ELSE IF f.val = Invalid
                      THEN [caller EXCEPT !.pc = "invoked"]
                      ELSE [caller EXCEPT !.in = Append(@, f.val)]]]
               /\ UNCHANGED last
    /\ UNCHANGED <<bindings, expected, injVars, parent, heap, singleton, transient, iocParent,
                   instFields, inits, invoked>>

\* Thread t calls c.Register(val, lifecycle).
ThrCallRegister(t, c, val, lifecycle) ==
    /\ stacks[t] = <<>>
    /\ stacks' = [stacks EXCEPT ![t] = <<RegisterFrame(c, val, lifecycle)>>]
    /\ UNCHANGED <<bindings, expected, injVars, parent, heap, last, singleton, transient,
                   iocParent, instFields, inits, locker, invoked>>

\* container.locker.Lock(), its first half: from now on RLock waits.
ThrLock(t) ==
    /\ At(t, "Register", "lock")
    /\ locker' = [locker EXCEPT ![Top(t).c].waiting = @ \cup {t}]
    /\ stacks' = SetTop(t, [Top(t) EXCEPT !.pc = "lockwait"])
    /\ UNCHANGED <<bindings, expected, injVars, parent, heap, last, singleton, transient,
                   iocParent, instFields, inits, invoked>>

\* container.locker.Lock(), its second half: the readers have left.
ThrLocked(t) ==
    /\ At(t, "Register", "lockwait")
    /\ CanLock(locker[Top(t).c])
    /\ locker' = [locker EXCEPT ![Top(t).c].waiting = @ \ {t},
                                ![Top(t).c].writer = t]
    /\ stacks' = SetTop(t, [Top(t) EXCEPT !.pc = "map"])
    /\ UNCHANGED <<bindings, expected, injVars, parent, heap, last, singleton, transient,
                   iocParent, instFields, inits, invoked>>

\* The body of Register: the two Get and the Map. The new entry has had no
\* InitFunc call and no invoker call.
ThrMap(t) ==
    /\ At(t, "Register", "map")
    /\ LET f == Top(t)
           r == iocRegister(f.c, f.inst, f.lc) IN
       /\ singleton' = r.singleton
       /\ transient' = r.transient
       /\ inits' = [inits EXCEPT ![f.c][f.typ] = 0]
       /\ invoked' = [invoked EXCEPT ![f.c][f.typ] = 0]
       /\ stacks' = SetTop(t, [f EXCEPT !.pc = "unlock", !.lc = r.lifecycle])
    /\ UNCHANGED <<bindings, expected, injVars, parent, heap, last, iocParent, instFields,
                   locker>>

\* The deferred container.locker.Unlock(), and the return of Register.
ThrUnlock(t) ==
    /\ At(t, "Register", "unlock")
    /\ LET f == Top(t) IN
       /\ locker' = [locker EXCEPT ![f.c].writer = Nil]
       /\ stacks' = [stacks EXCEPT ![t] = <<>>]
       /\ last' = [NoCall EXCEPT !.op = "ThrRegister", !.c = f.c,
                                 !.t = f.typ, !.val = f.inst, !.arg = t,
                                 !.lifecycle = f.lc]
    /\ UNCHANGED <<bindings, expected, injVars, parent, heap, singleton, transient, iocParent,
                   instFields, inits, invoked>>

\* The steps of thread t inside a call.
ThrStep(t) ==
    \/ ThrRLock(t)
    \/ ThrTransientGet(t)
    \/ ThrSingletonGet(t)
    \/ ThrInvoke(t)
    \/ ThrInvoked(t)
    \/ ThrParent(t)
    \/ ThrReturn(t)
    \/ ThrLock(t)
    \/ ThrLocked(t)
    \/ ThrMap(t)
    \/ ThrUnlock(t)

\* The thread scenario: W registers a *S7 and a *S8 (whose initializer takes
\* a *S7) in P as singletons, again and again, while T1 and T2 resolve
\* *S7 and *S8 from P.
ThrInstances == {Value("s7"), Value("s8")}
ThrTypes == {"*S7", "*S8"}

NextThreads ==
    \/ \E t \in Resolvers, typ \in ThrTypes : ThrCallResolve(t, "P", typ)
    \/ \E t \in Registrars, val \in ThrInstances :
          ThrCallRegister(t, "P", val, Singleton)
    \/ \E t \in Threads : ThrStep(t)

SpecThreads == Init /\ [][NextThreads]_vars

\* Every thread that can take a step takes one: a goroutine that is runnable
\* runs, and a goroutine that waits for a lock gets it once it is free.
SpecThreadsFair ==
    SpecThreads /\ \A t \in Threads : SF_vars(ThrStep(t))

\* ------------------------------------------- threads on a singletonContainer
\* Threads share the singletonContainer of P and call it as a Resolve without
\* the read lock does (README, change list of 2016/8/31): Get, which takes
\* no lock, and Map, which takes the write lock of the singletonContainer.
\* A thread at mapaccess is inside the read of valuemapper, a thread at
\* mapassign inside the write.
GetFrame(c, typ) ==
    [op |-> "Get", c |-> c, typ |-> typ, pc |-> "mapaccess", inst |-> Invalid,
     in |-> <<>>, lc |-> Nil, val |-> Invalid]
MapFrame(c, val) ==
    [op |-> "Map", c |-> c, typ |-> TypeOf(val), pc |-> "lock", inst |-> val,
     in |-> <<>>, lc |-> Singleton, val |-> Invalid]

\* The threads inside the write of the valuemapper of c.
Assigning(c) == {w \in Threads : At(w, "Map", "mapassign") /\ Top(w).c = c}

\* What the read of valuemapper[typ] yields: the entry, or, when a thread is
\* inside the write of the map, the entry before the write, the entry
\* written, or the fatal error of the runtime (concurrent map read and map
\* write), shown as status "fatal".
MapAccess(c, typ) ==
    {[status |-> "returned", val |-> singleton[c][typ].val]}
    \cup {[status |-> "returned", val |-> Top(w).inst] :
             w \in {u \in Assigning(c) : Top(u).typ = typ}}
    \cup {[status |-> "fatal", val |-> Invalid] : w \in Assigning(c)}

\* Thread t calls Get(typ, nil) of the singletonContainer of c.
ThrCallGet(t, c, typ) ==
    /\ last.status # "fatal"
    /\ stacks[t] = <<>>
    /\ stacks' = [stacks EXCEPT ![t] = <<GetFrame(c, typ)>>]
    /\ UNCHANGED <<bindings, expected, injVars, parent, heap, last, singleton, transient,
                   iocParent, instFields, inits, locker, invoked>>

\* stateVal := container.valuemapper[typ], and the return of Get: without an
\* invoker no initializer runs.
ThrMapAccess(t) ==
    /\ last.status # "fatal"
    /\ At(t, "Get", "mapaccess")
    /\ \E r \in MapAccess(Top(t).c, Top(t).typ) :
          last' = [NoCall EXCEPT !.op = "ThrGet", !.c = Top(t).c,
                                 !.t = Top(t).typ, !.status = r.status,
                                 !.val = r.val, !.arg = t]
    /\ stacks' = [stacks EXCEPT ![t] = <<>>]
    /\ UNCHANGED <<bindings, expected, injVars, parent, heap, singleton, transient, iocParent,
                   instFields, inits, locker, invoked>>

\* Thread t calls Map(val) of the singletonContainer of c.
ThrCallMap(t, c, val) ==
    /\ last.status # "fatal"
    /\ stacks[t] = <<>>
    /\ stacks' = [stacks EXCEPT ![t] = <<MapFrame(c, val)>>]
    /\ UNCHANGED <<bindings, expected, injVars, parent, heap, last, singleton, transient,
                   iocParent, instFields, inits, locker, invoked>>

\* container.locker.Lock() of the singletonContainer.
ThrMapLock(t) ==
    /\ last.status # "fatal"
    /\ At(t, "Map", "lock")
    /\ CanLock(locker[singletonLocker(Top(t).c)])
    /\ locker' = [locker EXCEPT ![singletonLocker(Top(t).c)].writer = t]
    /\ stacks' = SetTop(t, [Top(t) EXCEPT !.pc = "mapassign"])
    /\ UNCHANGED <<bindings, expected, injVars, parent, heap, last, singleton, transient,
                   iocParent, instFields, inits, invoked>>

\* container.valuemapper[reflect.TypeOf(val)] = &stateValue{val: ...}
ThrMapAssign(t) ==
    /\ last.status # "fatal"
    /\ At(t, "Map", "mapassign")
    /\ singleton' = [singleton EXCEPT ![Top(t).c][Top(t).typ] =
                        stateValue(Top(t).inst)]
    /\ stacks' = SetTop(t, [Top(t) EXCEPT !.pc = "unlock"])
    /\ UNCHANGED <<bindings, expected, injVars, parent, heap, last, transient, iocParent,
                   instFields, inits, locker, invoked>>

\* The deferred container.locker.Unlock(), and the return of Map.
ThrMapUnlock(t) ==
    /\ last.status # "fatal"
    /\ At(t, "Map", "unlock")
    /\ locker' = [locker EXCEPT ![singletonLocker(Top(t).c)].writer = Nil]
    /\ stacks' = [stacks EXCEPT ![t] = <<>>]
    /\ last' = [NoCall EXCEPT !.op = "ThrMap", !.c = Top(t).c,
                              !.t = Top(t).typ, !.val = Top(t).inst,
                              !.arg = t]
    /\ UNCHANGED <<bindings, expected, injVars, parent, heap, singleton, transient, iocParent,
                   instFields, inits, invoked>>

\* The map scenario: W and T2 map a *S7 and a *S8 while T1 and T2 get them.
NextMaps ==
    \/ \E t \in Resolvers, typ \in ThrTypes : ThrCallGet(t, "P", typ)
    \/ \E t \in Registrars \cup {"T2"}, val \in ThrInstances :
          ThrCallMap(t, "P", val)
    \/ \E t \in Threads : ThrMapAccess(t)
    \/ \E t \in Threads : ThrMapLock(t)
    \/ \E t \in Threads : ThrMapAssign(t)
    \/ \E t \in Threads : ThrMapUnlock(t)

SpecMaps == Init /\ [][NextMaps]_vars

\* ---------------------------------------------- threads on a binding table
\* Threads share a defaultContainer and call Register for the same service:
\* addBinding is a LoadOrStore of the sync.Map and, when that found a binding
\* that can be overridden, a Store; each of the two is atomic.

\* sync.Map.LoadOrStore(key, value)
LoadOrStore(table, key, value) ==
    IF Loaded(table, key)
    THEN [actual |-> table[key], loaded |-> TRUE, table |-> table]
    ELSE [actual |-> value, loaded |-> FALSE,
          table |-> [table EXCEPT ![key] = value]]

\* sync.Map.Store(key, value)
Store(table, key, value) == [table EXCEPT ![key] = value]

\* A call of addBinding a thread is in: binding is its argument,
\* existsBinding what LoadOrStore loaded.
addBindingFrame(c, binding) ==
    [op |-> "addBinding", c |-> c, typ |-> binding.ServiceType,
     pc |-> "LoadOrStore", binding |-> binding, existsBinding |-> NoBinding]

\* Thread t calls c.Register(serviceType, canOverride, singletonInstance,
\* factory): the checks of Register and addBinding, which read nothing
\* shared. A refused call returns its error.
ThrCallAddBinding(t, c, serviceType, canOverride, singletonInstance, factory) ==
    /\ stacks[t] = <<>>
    /\ LET err == Register(EmptyTable, serviceType, canOverride,
                           singletonInstance, factory).err
           binding == serviceBinding(serviceType, canOverride,
                         ValueOf(singletonInstance),
                         IF singletonInstance # NilValue THEN Invalid
                         ELSE ValueOf(factory)) IN
       IF err # Nil
       THEN /\ last' = [NoCall EXCEPT !.op = "ThrAddBinding", !.c = c,
                                      !.t = serviceType, !.err = err,
                                      !.arg = t, !.binding = binding]
            /\ UNCHANGED stacks
       ELSE /\ stacks' = [stacks EXCEPT ![t] = <<addBindingFrame(c, binding)>>]
            /\ UNCHANGED last
    /\ UNCHANGED <<bindings, expected, injVars, parent, heap, singleton, transient, iocParent,
                   instFields, inits, locker, invoked>>

\* actual, loaded := c.bindings.LoadOrStore(binding.ServiceType, binding)
ThrLoadOrStore(t) ==
    /\ At(t, "addBinding", "LoadOrStore")
    /\ LET f == Top(t)
           r == LoadOrStore(bindings[f.c], f.typ, f.binding) IN
       /\ bindings' = [bindings EXCEPT ![f.c] = r.table]
       /\ IF r.loaded /\ r.actual.CanOverride
          THEN /\ stacks' = SetTop(t, [f EXCEPT !.pc = "Store",
                                                !.existsBinding = r.actual])
               /\ UNCHANGED last
          ELSE /\ stacks' = [stacks EXCEPT ![t] = <<>>]
               /\ last' = [NoCall EXCEPT
                              !.op = "ThrAddBinding", !.c = f.c, !.t = f.typ,
                              !.arg = t, !.binding = f.binding,
                              !.actual = IF r.loaded THEN r.actual
                                         ELSE NoBinding]
    /\ UNCHANGED <<expected, injVars, parent, heap, singleton, transient, iocParent,
                   instFields,
                   inits, locker, invoked>>

\* c.bindings.Store(binding.ServiceType, binding)
ThrStore(t) ==
    /\ At(t, "addBinding", "Store")
    /\ LET f == Top(t) IN
       /\ bindings' = [bindings EXCEPT ![f.c] = Store(@, f.typ, f.binding)]
       /\ stacks' = [stacks EXCEPT ![t] = <<>>]
       /\ last' = [NoCall EXCEPT !.op = "ThrAddBinding", !.c = f.c,
                                 !.t = f.typ, !.arg = t,
                                 !.binding = f.binding,
                                 !.actual = f.existsBinding]
    /\ UNCHANGED <<expected, injVars, parent, heap, singleton, transient, iocParent,
                   instFields,
                   inits, locker, invoked>>

\* The override scenario: three threads register their instances for IX in
\* globalContainer, with and without permission to override, and one call
\* that is refused.
OverrideCalls ==
    {<<"IX", o, v>> : o \in BOOLEAN, v \in {Value("x1"), Value("x2")}}
    \cup {<<"IX", TRUE, Value("y1")>>}

NextOverride ==
    \/ \E t \in Threads : \E a \in OverrideCalls :
          ThrCallAddBinding(t, globalContainer, a[1], a[2], a[3], NilValue)
    \/ \E t \in Threads : ThrLoadOrStore(t)
    \/ \E t \in Threads : ThrStore(t)

SpecOverride == Init /\ [][NextOverride]_vars

\* ---------------------------------------------------------------- properties
\* The containers reached from c along the parent links, c first, each once.
RECURSIVE ChainFrom(_, _)
ChainFrom(c, seen) ==
    IF parent[c] = Nil
       \/ \E i \in 1..Len(seen \o <<c>>) : (seen \o <<c>>)[i] = parent[c]
    THEN seen \o <<c>>
    ELSE ChainFrom(parent[c], seen \o <<c>>)

Chain(c) == ChainFrom(c, <<>>)

\* The chain of c ends in a container without parent.
Acyclic(c) == parent[Chain(c)[Len(Chain(c))]] = Nil

\* The positions in the chain of c of the containers that bind t.
BoundAt(c, t) == {i \in 1..Len(Chain(c)) : Loaded(bindings[Chain(c)[i]], t)}

Min(S) == CHOOSE i \in S : \A j \in S : i <= j

\* The binding of t in the first container of the chain of c that has one.
NearestBinding(c, t) == bindings[Chain(c)[Min(BoundAt(c, t))]][t]

IsSingleton(binding) == binding # NoBinding /\ binding.Instance # Invalid
IsTransient(binding) == binding # NoBinding /\ binding.Instance = Invalid

\* C1: a Resolve of an identity that the container binds as a singleton
\* returns the instance stored at registration, and calls no factory, on
\* every call.
C1_SingletonSameInstance ==
    (last.op = "Resolve" /\ IsSingleton(bindings[last.c][last.t]))
    => /\ last.status = "returned"
       /\ last.val = bindings[last.c][last.t].Instance
       /\ last.val.n = 0
       /\ last.calls = <<>>

\* The second container returns the instance x2 registered in it for IX.
C1_Witness ==
    /\ last.op = "Resolve" /\ last.t = "IX" /\ last.c = "A"
    /\ IsSingleton(bindings[last.c][last.t])
    /\ last.val = Value("x2")

\* C2: a Resolve of an identity that the container binds as a transient calls
\* the factory of the binding exactly once and returns the object of that
\* call, an object that did not exist before the call.
C2_TransientFresh ==
    [][(last'.op = "Resolve" /\ IsTransient(bindings'[last'.c][last'.t]))
       => /\ last'.calls = <<bindings'[last'.c][last'.t].InstanceFactory>>
          /\ last'.val.ref = bindings'[last'.c][last'.t].InstanceFactory.ref
          /\ last'.val.n > heap
          /\ heap' = heap + 1]_vars

\* The second Resolve of a transient: the second object allocated.
C2_Witness ==
    /\ last.op = "Resolve" /\ IsTransient(bindings[last.c][last.t])
    /\ heap = 2 /\ last.val = [ref |-> "fx", n |-> 2]

\* C3: a Register that is accepted for an identity the container already
\* binds leaves the binding as it is when that binding was registered
\* without canOverride, and stores the new binding when it was registered
\* with canOverride.
C3_SecondRegistration ==
    [][(last'.op = "Register" /\ last'.err = Nil
        /\ Loaded(bindings[last'.c], last'.t))
       => bindings'[last'.c][last'.t] =
             IF bindings[last'.c][last'.t].CanOverride
             THEN last'.binding
             ELSE bindings[last'.c][last'.t]]_vars

\* A registration that replaced an overridable binding by another one.
C3_Witness ==
    /\ last.op = "Register" /\ last.err = Nil
    /\ last.actual # NoBinding /\ last.actual.CanOverride
    /\ last.binding # last.actual
    /\ bindings[last.c][last.t] = last.binding

\* C4: a Resolve on a container without a binding of its own returns none
\* when the container has no parent, and otherwise what the first container
\* of its chain that binds the identity gives: the singleton instance, or a
\* new product of the factory.
C4_ResolveThroughParent ==
    (last.op = "Resolve" /\ ~Loaded(bindings[last.c], last.t))
    => IF parent[last.c] = Nil
       THEN last.status = "returned" /\ last.val = Invalid
       ELSE BoundAt(last.c, last.t) # {}
            => LET binding == NearestBinding(last.c, last.t) IN
               /\ last.status = "returned"
               /\ IsSingleton(binding)
                  => last.val = binding.Instance /\ last.calls = <<>>
               /\ IsTransient(binding)
                  => /\ last.val = CallFactory(binding.InstanceFactory, heap - 1)
                     /\ last.calls = <<binding.InstanceFactory>>

\* globalContainer resolves the instance of its parent's parent.
C4_Witness ==
    /\ last.op = "Resolve" /\ last.c = globalContainer /\ last.t = "IX"
    /\ last.path = <<globalContainer, "A", "B">>
    /\ last.val = Value("x3")

\* C5: SetParent(nil) leaves the parent of the container as it was.
C5_SetParentNilIgnored ==
    [][(last'.op = "SetParent" /\ last'.arg = Nil) => parent' = parent]_vars

\* C6: SetParent(P2) on a container whose parent is P1 # P2 leaves P1 the
\* parent of the container and makes P2 the parent at the end of the chain.
C6_SetParentAppends ==
    [][(last'.op = "SetParent" /\ last'.arg # Nil
        /\ parent[last'.c] # Nil /\ parent[last'.c] # last'.arg
        /\ parent[last'.arg] = Nil /\ last'.arg # last'.c
        /\ Acyclic(last'.c))
       => /\ parent'[last'.c] = parent[last'.c]
          /\ \E d \in Containers : parent[d] = Nil /\ parent'[d] = last'.arg]_vars

\* C7: a Resolve is served by the first container of the chain that binds
\* the identity, the container itself when it has a binding, and no
\* container behind that one is consulted.
C7_NearestBindingWins ==
    (last.op = "Resolve" /\ BoundAt(last.c, last.t) # {})
    => LET k == Min(BoundAt(last.c, last.t))
           binding == NearestBinding(last.c, last.t) IN
       /\ last.status = "returned"
       /\ last.path = SubSeq(Chain(last.c), 1, k)
       /\ Loaded(bindings[last.c], last.t) => last.path = <<last.c>>
       /\ last.val.ref = IF IsSingleton(binding) THEN binding.Instance.ref
                         ELSE binding.InstanceFactory.ref

\* globalContainer returns its own instance although its parent binds IX.
C7_Witness ==
    /\ last.op = "Resolve" /\ last.c = globalContainer /\ last.t = "IX"
    /\ parent[globalContainer] = "A"
    /\ IsSingleton(bindings["A"]["IX"])
    /\ IsSingleton(bindings[globalContainer]["IX"])
    /\ last.val = Value("x1")

\* C8: a Resolve of an identity bound nowhere in a chain without cycle
\* returns none after consulting every container of the chain once, and
\* GetService returns the zero value then.
C8_UnboundResolvesToNone ==
    (last.op \in {"Resolve", "GetService"} /\ Acyclic(last.c)
     /\ BoundAt(last.c, last.t) = {})
    => /\ last.status = "returned"
       /\ last.path = Chain(last.c)
       /\ \A i, j \in 1..Len(last.path) : last.path[i] = last.path[j] => i = j
       /\ last.calls = <<>>
       /\ last.val = IF last.op = "Resolve" THEN Invalid ELSE NilValue

\* GetService found nothing in a chain of three containers.
C8_Witness ==
    /\ last.op = "GetService" /\ last.t = "IX"
    /\ Len(last.path) = 3 /\ Acyclic(globalContainer)
    /\ last.val = NilValue

\* The number of the parameters (or fields) among the first i of types whose
\* nearest binding is a transient.
Transients(types, i) ==
    Cardinality({j \in 1..i : /\ BoundAt(globalContainer, types[j]) # {}
                               /\ IsTransient(NearestBinding(globalContainer,
                                                             types[j]))})

\* What Resolve gives for the i-th of the types resolved in this order by one
\* call that ended with the heap as it is now.
Expected(types, i) ==
    LET binding == NearestBinding(globalContainer, types[i]) IN
    IF IsSingleton(binding)
    THEN binding.Instance
    ELSE [ref |-> binding.InstanceFactory.ref,
          n |-> heap - Transients(types, Len(types)) + Transients(types, i)]

\* C9: Inject calls the func if and only if every parameter type resolves
\* from the chain of globalContainer; it panics without calling it when one
\* does not, and calls it once with the resolved values in the declared
\* order when all do.
C9_FuncInjection ==
    last.op = "InjectFunc"
    => LET all == \A i \in 1..Len(last.target) :
                     BoundAt(globalContainer, last.target[i]) # {} IN
       /\ last.called = 1 <=> all
       /\ ~all => last.status = "panic" /\ last.called = 0
       /\ all => /\ last.status = "returned"
                 /\ Len(last.args) = Len(last.target)
                 /\ \A i \in 1..Len(last.target) :
                       last.args[i] = Expected(last.target, i)

\* A func called with the singleton of *PY and a product for IX, in order.
C9_Witness ==
    /\ last.op = "InjectFunc" /\ last.called = 1
    /\ last.target = <<"*PY", "IX">>
    /\ last.args[1] = Value("y1") /\ last.args[2].ref = "fx"

\* C10: Inject into a struct returns normally whatever is missing: a field
\* to inject whose type is bound nowhere keeps its value, and every other
\* field to inject holds what its type resolves to.
C10_StructInjection ==
    last.op = "InjectStruct"
    => LET injectable(i) == \/ last.target[i].type = resolverType
                           \/ last.target[i].tag = "true"
           order == SelectSeq(last.target,
                              LAMBDA f : f.type = resolverType \/ f.tag = "true")
           pos(i) == Cardinality({j \in 1..i : injectable(j)}) IN
       /\ last.status = "returned"
       /\ Len(last.fields) = Len(last.target)
       /\ \A i \in 1..Len(last.target) :
             /\ last.fields[i].type = last.target[i].type
             /\ (injectable(i)
                 /\ BoundAt(globalContainer, last.target[i].type) = {})
                => last.fields[i].val = last.target[i].val
             /\ (injectable(i)
                 /\ BoundAt(globalContainer, last.target[i].type) # {})
                => last.fields[i].val =
                      Expected([k \in 1..Len(order) |-> order[k].type], pos(i))

\* A struct whose IX field stays nil while the *PY field after it is set.
C10_Witness ==
    /\ last.op = "InjectStruct"
    /\ BoundAt(globalContainer, "IX") = {}
    /\ \E i, j \in 1..Len(last.fields) :
          /\ i < j
          /\ last.target[i].tag = "true" /\ last.target[i].type = "IX"
          /\ last.fields[i].val = NilValue
          /\ last.target[j].tag = "true" /\ last.fields[j].val = Value("y1")

\* C11: Inject into a struct assigns a field only if its type is Resolver or
\* its ioc-inject tag is exactly "true": every other field keeps its value
\* even when its type is bound, and a Resolver field is assigned without tag.
C11_OnlyTaggedOrResolver ==
    last.op = "InjectStruct"
    => \A i \in 1..Len(last.target) :
          /\ (last.target[i].type # resolverType /\ last.target[i].tag # "true")
             => last.fields[i] = last.target[i]
          /\ (last.target[i].type = resolverType /\ last.status = "returned")
             => last.fields[i].val = Value(globalContainer)

\* IX and *PY are bound, the fields tagged "false", "TRUE" and "" stay nil,
\* and the Resolver field without tag holds globalContainer.
C11_Witness ==
    /\ last.op = "InjectStruct"
    /\ BoundAt(globalContainer, "IX") # {}
    /\ BoundAt(globalContainer, "*PY") # {}
    /\ \E i, j, k \in 1..Len(last.target) :
          /\ last.target[i].tag = "false" /\ last.fields[i].val = NilValue
          /\ last.target[j].tag = "TRUE" /\ last.fields[j].val = NilValue
          /\ last.target[k].tag = "" /\ last.fields[k].val = NilValue
    /\ \E i \in 1..Len(last.target) :
          /\ last.target[i].type = resolverType /\ last.target[i].tag = Nil
          /\ last.fields[i].val = Value(globalContainer)

\* C12: Inject into a struct leaves every field to inject that holds a
\* non-zero value before the call with that value.
C12_NonZeroFieldKept ==
    last.op = "InjectStruct"
    => \A i \in 1..Len(last.target) :
          ((last.target[i].type = resolverType \/ last.target[i].tag = "true")
           /\ last.target[i].val # NilValue)
          => last.fields[i].val = last.target[i].val

\* C13: in every reachable state every container resolves Resolver to
\* itself: no Register on the container replaces the binding it made for
\* itself when it was constructed, and SetParent does not touch it.
C13_ResolvesItself ==
    /\ \A c \in Containers :
          /\ bindings[c][resolverType] =
                serviceBinding(resolverType, FALSE, Value(c), Invalid)
          /\ Resolve(c, resolverType, heap).status = "returned"
          /\ Resolve(c, resolverType, heap).val = Value(c)
          /\ Resolve(c, resolverType, heap).path = <<c>>
    /\ (last.op \in {"Resolve", "GetService"} /\ last.t = resolverType)
       => last.val = Value(last.c)

\* globalContainer, with a parent, accepted a Register of another container
\* as Resolver without an error and still holds itself.
C13_Witness ==
    /\ last.op = "Register" /\ last.c = globalContainer
    /\ last.t = resolverType /\ last.err = Nil
    /\ last.binding.Instance = Value("A") /\ last.binding.CanOverride
    /\ parent[globalContainer] = "A"
    /\ Resolve(globalContainer, resolverType, heap).val = Value(globalContainer)

\* The container of the chain of c (c, then its parent) that maps typ, Nil
\* when none does.
iocMapped(c, typ) == singleton[c][typ] # NoState \/ transient[c][typ] # Nil
iocOwner(c, typ) ==
    IF iocMapped(c, typ) THEN c
    ELSE IF iocParent[c] # Nil /\ iocMapped(iocParent[c], typ)
    THEN iocParent[c]
    ELSE Nil

\* typ is served, from c, by a singleton whose instance is an Initializer.
iocInitializedSingleton(c, typ) ==
    /\ iocOwner(c, typ) # Nil
    /\ transient[iocOwner(c, typ)][typ] = Nil
    /\ IsInitializer(singleton[iocOwner(c, typ)][typ].val)

\* C14: a Register of a singleton whose initializer has a parameter of the
\* type being registered returns an error and maps nothing.
C14_CyclicInitializerRefused ==
    [][(/\ last'.op = "iocRegister" /\ last'.lifecycle = Singleton
        /\ IsInitializer(last'.val)
        /\ \E i \in 1..Len(InitFunc(last'.val)) :
              InitFunc(last'.val)[i] = last'.t)
       => (last'.err # Nil /\ singleton' = singleton)]_vars

\* C15: once a singleton whose instance is an Initializer has been resolved,
\* the call has returned and the InitFunc of the instance has been run
\* exactly once since it was registered, however many Resolve calls were made.
C15_InitializerOnce ==
    (last.op = "iocResolve" /\ iocInitializedSingleton(last.c, last.t))
    => /\ last.status = "returned"
       /\ inits[iocOwner(last.c, last.t)][last.t] = 1
       /\ singleton[iocOwner(last.c, last.t)][last.t].isInitialized

\* C16: when a Resolve on the child runs the initializer of a singleton
\* mapped only in the parent, an argument whose type the child maps as a
\* singleton is the instance of the child.
C16_InitializerResolvesFromChild ==
    (/\ last.op = "iocResolve" /\ last.c = "C"
     /\ iocOwner("C", last.t) = "P"
     /\ last.status = "returned"
     /\ Len(last.ran) > 0)
    => \A k \in 1..Len(last.ran) :
          \A i \in 1..Len(last.ran[k].args) :
             LET d == InitFunc(last.ran[k].inst)[i] IN
             (last.ran[k].inst = last.val /\ singleton["C"][d] # NoState)
             => last.ran[k].args[i] = singleton["C"][d].val

\* A service identity addBinding accepts: an interface or a pointer to struct.
ValidIdentity(t) == t # Nil /\ Kind(t) \in {"Interface", "PointerToStruct"}

\* C17: Register with no service identity, or with one that is neither an
\* interface nor a pointer to a struct, returns an error and stores nothing,
\* for an instance and for a factory alike; AddSingleton and AddTransient
\* panic with that error.
C17_InvalidIdentityRefused ==
    [][(last'.op \in {"Register", "AddSingleton", "AddTransient"}
        /\ ~ValidIdentity(last'.t))
       => /\ last'.err # Nil
          /\ bindings' = bindings
          /\ last'.op # "Register" => last'.status = "panic"]_vars

\* AddSingleton[SZ](SZ{}) panicked, after A refused a factory for SZ.
C17_Witness ==
    /\ last.op = "AddSingleton" /\ last.t = "SZ"
    /\ last.binding.Instance = StructValue
    /\ last.status = "panic"
    /\ last.err = "should be an interface or *struct"

\* C18: Register with a valid service identity and neither an instance nor
\* a factory returns an error and leaves the binding table as it was.
C18_NothingToBindRefused ==
    [][(/\ last'.op = "Register" /\ ValidIdentity(last'.t)
        /\ last'.binding.Instance = Invalid
        /\ last'.binding.InstanceFactory = Invalid)
       => (last'.err # Nil /\ bindings' = bindings)]_vars

\* Register(*PY, false, nil, nil) returned the error.
C18_Witness ==
    /\ last.op = "Register" /\ last.t = "*PY"
    /\ last.binding.Instance = Invalid
    /\ last.binding.InstanceFactory = Invalid
    /\ last.err = "both instance and instanceFactory are null"
    /\ ~Loaded(bindings[last.c], "*PY")

\* C19: AddSingleton with a nil instance and AddTransient with a nil factory
\* panic and store nothing, and no Resolve returns a nil instance or calls a
\* nil factory.
C19_NilRefused ==
    [][/\ (last'.op \in {"AddSingleton", "AddTransient"}
           /\ last'.arg = NilValue.ref)
          => (last'.status = "panic" /\ bindings' = bindings)
       /\ last'.op \in {"Resolve", "GetService"}
          => (last'.status # "panic" /\ ~IsNil(last'.val))]_vars

\* Every binding of every table holds an instance, or a func without
\* parameters and with one result, assignable to its identity.
TableAssignable ==
    \A c \in Containers : \A t \in DOMAIN bindings[c] :
       Loaded(bindings[c], t)
       => LET b == bindings[c][t] IN
          /\ b.ServiceType = t
          /\ b.Instance # Invalid => AssignableTo(TypeOf(b.Instance), t)
          /\ b.Instance = Invalid
             => /\ b.InstanceFactory # Invalid
                /\ Kind(TypeOf(b.InstanceFactory)) = "Func"
                /\ NumIn(b.InstanceFactory) = 0
                /\ NumOut(b.InstanceFactory) = 1
                /\ AssignableTo(Out(b.InstanceFactory), t)

\* C20: Register with an instance whose type is not assignable to the
\* identity, or with a factory that is not a func without parameters and
\* with one result assignable to the identity, returns an error and stores
\* nothing, so that every binding of a table is assignable to its identity.
C20_MismatchRefused ==
    [][/\ (/\ last'.op = "Register" /\ ValidIdentity(last'.t)
           /\ LET b == last'.binding IN
              \/ b.Instance # Invalid
                 /\ ~AssignableTo(TypeOf(b.Instance), last'.t)
              \/ b.Instance = Invalid /\ b.InstanceFactory # Invalid
                 /\ (\/ Kind(TypeOf(b.InstanceFactory)) # "Func"
                     \/ NumIn(b.InstanceFactory) # 0
                     \/ NumOut(b.InstanceFactory) # 1
                     \/ ~AssignableTo(Out(b.InstanceFactory), last'.t)))
          => (last'.err # Nil /\ bindings' = bindings)
       /\ TableAssignable']_vars

\* A holds a *PY and refused the func with two results for IX.
C20_Witness ==
    /\ last.op = "Register" /\ last.t = "IX"
    /\ last.binding.InstanceFactory = Value("fout2")
    /\ last.err = "instanceFactory should return service"
    /\ Loaded(bindings["A"], "*PY") /\ ~Loaded(bindings["A"], "IX")

\* C21: Inject with a container as target returns without a change to the
\* container: its parent link and its binding table stay as they were.
C21_InjectContainerSkipped ==
    [][(last'.op = "Inject" /\ last'.arg \in Containers)
       => (/\ last'.status = "returned"
           /\ parent' = parent /\ bindings' = bindings)]_vars

\* C22: Inject with nil, a nil pointer to a struct or a zero reflect.Value
\* as target returns without a panic and changes nothing.
C22_InjectNothing ==
    [][(last'.op = "Inject" /\ last'.arg \in {"nil", "nilpy", "nilcl", "rv"})
       => (/\ last'.status = "returned"
           /\ UNCHANGED <<bindings, expected, injVars, parent, heap, iocVars>>)]_vars

\* C23: whatever the interleaving of the Resolve calls of several threads on
\* a singleton entry that is not initialized, InitFunc is called for the
\* entry, and the invoker with it, at most once.
C23_InitializerAtMostOnce ==
    \A c \in iocContainers, typ \in iocTypes : inits[c][typ] <= 1

C25_NoWaitOnOtherBinding ==
    ~\E t1, t2 \in Resolvers :
        /\ t1 # t2
        /\ At(t1, "Resolve", "rlock")
        /\ ~CanRLock(locker[Top(t1).c])
        /\ locker[Top(t1).c].readers[t2] > 0
        /\ stacks[t2][1].typ # stacks[t1][1].typ

\* C26: every Resolve of a thread returns, whatever Register calls another
\* thread makes on the container meanwhile.
C26_ResolveReturns ==
    \A t \in Resolvers : (stacks[t] # <<>>) ~> (stacks[t] = <<>>)

\* C27: no thread is inside a read of the binding map of a container while
\* another thread is inside a write of it.
C27_MapAccessExclusive ==
    ~\E r, w \in Threads :
        /\ At(r, "Get", "mapaccess")
        /\ w \in Assigning(Top(r).c)

\* C28: a binding that cannot be overridden, once it is the entry of the
\* table for its service, stays the entry, whatever Register calls other
\* threads are in.
C28_FinalBindingStays ==
    [][\A c \in Containers : \A t \in ServiceTypes :
          (Loaded(bindings[c], t) /\ ~bindings[c][t].CanOverride)
          => bindings'[c][t] = bindings[c][t]]_vars

\* C29: after any Register calls made one after another, the entry of a
\* service is the first binding registered for it without canOverride, or
\* the last one registered when there is none; the incoming binding's flag
\* decides nothing, and a registration that is ignored returns no error.
C29_FirstFinalOrLatest ==
    /\ \A c \in Containers : \A t \in ServiceTypes :
          bindings[c][t] = expected[c][t]
    /\ (last.op = "Register" /\ last.actual # NoBinding) => last.err = Nil

\* A registration with canOverride that was ignored without an error: the
\* entry is the binding registered before, without canOverride.
C29_Witness ==
    /\ last.op = "Register" /\ last.err = Nil
    /\ last.actual # NoBinding /\ ~last.actual.CanOverride
    /\ last.binding.CanOverride /\ last.binding.Instance # last.actual.Instance
    /\ last.t # resolverType
    /\ bindings[last.c][last.t] = last.actual

\* C30: in each container an identity is bound at most once and as one
\* kind: no identity is mapped both as a singleton and as a transient,
\* whatever Register and RegisterTo calls were made and whatever lifecycle
\* they asked for.
C30_OneKindPerIdentity ==
    /\ \A t \in injectTypes : ~(values[t] # Invalid /\ typemapper[t] # Nil)
    /\ \A c \in iocContainers : \A t \in iocTypes :
          ~(singleton[c][t] # NoState /\ transient[c][t] # Nil)
    /\ \A c \in Containers : \A t \in ServiceTypes :
          Loaded(bindings[c], t)
          => (bindings[c][t].Instance # Invalid)
              # (bindings[c][t].InstanceFactory # Invalid)

\* C31: Register returns no error only when exactly one of the instance and
\* the factory is given; a call that gives both returns an error and leaves
\* the binding table as it was.
C31_BothRefused ==
    [][last'.op = "Register"
       => /\ last'.err = Nil
             => (last'.binding.Instance # Invalid)
                 # (last'.binding.InstanceFactory # Invalid)
          /\ (/\ last'.binding.Instance # Invalid
              /\ last'.binding.InstanceFactory # Invalid)
             => (last'.err # Nil /\ bindings' = bindings)]_vars

\* The call of the initializer of inst among the calls ran, with the
\* arguments deps.
RanWith(ran, inst, deps) ==
    \E k \in 1..Len(ran) : ran[k].inst = inst /\ ran[k].args = deps

\* C32: registering a singleton runs no initializer; the first Resolve of
\* the singleton runs it, with the dependencies registered by then, those
\* registered after the singleton included.
C32_InitializedAtFirstResolve ==
    [][/\ last'.op \in {"iocRegister", "injectRegister", "injectRegisterTo"}
          => (last'.ran = <<>> /\ instFields' = instFields)
       /\ (/\ last'.op = "injectResolve"
           /\ values[last'.t] = last'.val /\ last'.val # Invalid
           /\ last'.t \notin resolved
           /\ IsInitializer(last'.val)
           /\ \A i \in 1..Len(InitFunc(last'.val)) :
                 values[InitFunc(last'.val)[i]] # Invalid)
          => RanWith(last'.ran, last'.val,
                     [i \in 1..Len(InitFunc(last'.val)) |->
                         values[InitFunc(last'.val)[i]]])
       /\ (/\ last'.op = "iocResolve" /\ last'.status = "returned"
           /\ transient[last'.c][last'.t] = Nil
           /\ singleton[last'.c][last'.t] # NoState
           /\ ~singleton[last'.c][last'.t].isInitialized
           /\ IsInitializer(singleton[last'.c][last'.t].val)
           /\ \A i \in 1..Len(InitFunc(last'.val)) :
                 /\ transient[last'.c][InitFunc(last'.val)[i]] = Nil
                 /\ singleton[last'.c][InitFunc(last'.val)[i]] # NoState)
          => RanWith(last'.ran, last'.val,
                     [i \in 1..Len(InitFunc(last'.val)) |->
                         singleton[last'.c][InitFunc(last'.val)[i]].val])]_vars

\* The initializer of inst is not among the calls ran.
NotRan(ran, inst) == \A k \in 1..Len(ran) : ran[k].inst # inst

RanOf(ran, inst) == {k \in 1..Len(ran) : ran[k].inst = inst}

C35_SingletonResolveReturns ==
    [][(/\ last'.op = "iocResolve"
        /\ iocOwner(last'.c, last'.t) # Nil
        /\ transient[iocOwner(last'.c, last'.t)][last'.t] = Nil)
       => last'.status = "returned"]_vars

\* C36: SetParent(p) on a container whose parent is p already changes no
\* parent link of any container, so no chain gets longer and p does not
\* become its own ancestor; a service that no container of a chain binds,
\* and whose Resolve returned nothing valid, still resolves to nothing valid.
C36_SameParentIgnored ==
    [][(last'.op = "SetParent" /\ last'.arg # Nil
        /\ parent[last'.c] = last'.arg)
       => /\ parent' = parent
          /\ bindings' = bindings
          /\ \A c \in Containers : \A t \in ServiceTypes :
                (/\ Resolve(c, t, heap).status = "returned"
                 /\ Resolve(c, t, heap).val = Invalid)
                => /\ Resolve(c, t, heap)'.status = "returned"
                   /\ Resolve(c, t, heap)'.val = Invalid]_vars

\* globalContainer, whose parent was A, was given A as its parent again,
\* and IX, which neither binds, resolves to nothing.
C36_Witness ==
    /\ last.op = "SetParent" /\ last.c = globalContainer
    /\ last.arg = "A" /\ last.val = Value("A")
    /\ parent[globalContainer] = "A" /\ parent["A"] = Nil
    /\ Resolve(globalContainer, "IX", heap).status = "returned"
    /\ Resolve(globalContainer, "IX", heap).val = Invalid

\* C37: a Register call, AddSingleton and AddTransient included, changes at
\* most the entry of the registered service in the table of the container
\* it is called on: every other entry of that table, the tables of the other
\* containers and every parent link stay as they were; a call that returns
\* an error changes no table at all.
C37_RegisterFrame ==
    [][last'.op \in {"Register", "AddSingleton", "AddTransient"}
       => /\ \A c \in Containers : \A t \in ServiceTypes :
                (c # last'.c \/ t # last'.t)
                => bindings'[c][t] = bindings[c][t]
          /\ parent' = parent
          /\ last'.err # Nil => bindings' = bindings]_vars

\* A registered IX next to its binding of Resolver, while globalContainer,
\* whose parent it is, holds another binding of IX.
C37_Witness ==
    /\ last.op = "Register" /\ last.c = "A" /\ last.t = "IX"
    /\ last.err = Nil /\ last.actual = NoBinding
    /\ bindings["A"]["IX"].Instance = last.binding.Instance
    /\ Loaded(bindings["A"], resolverType)
    /\ Loaded(bindings[globalContainer], "IX")
    /\ bindings[globalContainer]["IX"] # bindings["A"]["IX"]
    /\ parent[globalContainer] = "A"

====
